---- MODULE Spec2Model ----
(***************************************************************************)
(* Verification model of the CSV tooling of the CITS1401 repository:       *)
(*   - CSVReader of "Project 2/CSVParser.py" (generator based tokenizer),  *)
(*   - BufferedReader of "ProjectOneCSVParser.py" (index + refill buffer), *)
(*   - BufferedStream + CSVReader of "Project 2/future/new parse 2.py".    *)
(* Every subsystem has its own specification; the variables of the other   *)
(* subsystems stay at their initial value.                                 *)
(***************************************************************************)
EXTENDS Integers, Sequences, FiniteSets, TLC

\* ------------------------------------------------------------------------
\* Bounds of the model
\* ------------------------------------------------------------------------
MaxLen == 5
MaxStops == 2
MaxSrcLen == 6
MaxCapacity == 3
MaxHeaderLen == 6
MaxRows == 4
MaxSortLen == 3
MaxMembers == 3
MaxVisits == 3
MaxItemLen == 3
MaxCsvLen == 4
MaxDataRows == 3
MaxCalls == 2
MaxFunctions == 2

\* ------------------------------------------------------------------------
\* Characters and texts
\* ------------------------------------------------------------------------
Escape == "\""
Delimiter == ","
Linebreak == "\n"
Plain == "a"

Alphabet == {Plain, Delimiter, Linebreak, Escape}

BoundedTexts == UNION {[1..n -> Alphabet] : n \in 0..MaxLen}

\* Inputs of the test-suite (Project 2/CSVParser_test.py)
TestSkipsEscaped ==
    <<"w","i","t","h",",","\"","e","s","c","a","p","e","d","\n","\"",",",
      "n","e","w","l","i","n","e","s",",","a","n","d",",",
      "\"","c","o","m",",","m","a","s","\"","\n">>
TestEscapingEscape == <<",","\"","\"",",","\""," ","\"","\""," ","\"","\n">>
TestNoTrailingNewline == <<"a",",","b",",","c">>
TestStringOfCommas == <<",",",",",","\n",",",",",",">>

\* Input of the demonstration at the end of Project 2/future/buffered reader.py
StreamDemoText ==
    <<"o","n","e",",","t","w","\"","\"","o",",","t","h","r","e","e","\n",
      "f","o","u","r",",","f","i","v","e",",","s","i","x","\n","s","e","v",
      "e","n",",","e","i","g","h","t",",","\"","n","i","\"","\"","n","e",
      "\"">>

StreamDemoRows ==
    << << <<"o","n","e">>, <<"t","w","\"","o">>, <<"t","h","r","e","e">> >>,
       << <<"f","o","u","r">>, <<"f","i","v","e">>, <<"s","i","x">> >>,
       << <<"s","e","v","e","n">>, <<"e","i","g","h","t">>, <<"n","i","\"","n","e">> >> >>

TestTexts ==
    {TestSkipsEscaped, TestEscapingEscape, TestNoTrailingNewline, TestStringOfCommas}

Texts == BoundedTexts \cup TestTexts

\* Outcome of a call: <<tag, value>>; the value is a sequence for every tag.
NoneVal == <<"None", <<>>>>
RowVal(r) == <<"row", r>>
StopIteration == <<"StopIteration", <<>>>>
CharVal(c) == <<"char", <<c>>>>
IndexError == <<"IndexError", <<>>>>
ValueError == <<"ValueError", <<>>>>

\* the sentinel peek returns, the character '\0'
Nul == "NUL"

Min(a, b) == IF a <= b THEN a ELSE b
Max(a, b) == IF a >= b THEN a ELSE b

VARIABLES
    \* CSVReader (Project 2/CSVParser.py)
    file,        \* the text handed to the constructor
    pos,         \* number of characters the generator self._file has delivered
    headersArg,  \* the constructor's headers argument
    headers,     \* self.headers
    pc,          \* "new", "ready", "loop", "failed" ("off": no reader in this run)
    caller,      \* who runs __next__: "ctor" (from __init__) or "iter"
    escaped, string, row,   \* locals of __next__
    start,       \* value of pos when the running __next__ was called
    result,      \* outcome of the last finished __next__
    records,     \* the rows iteration has yielded, in order
    stops,       \* number of StopIteration signals seen by the iteration
    \* BufferedReader (ProjectOneCSVParser.py)
    br_src,      \* the characters of self.file
    br_tell,     \* the position of self.file
    buffer_size, \* self.buffer_size
    buffer,      \* self.buffer
    index,       \* self.index
    br_op,       \* the last operation called: "none", "next", "peek" ("off": not in this run)
    br_result,   \* its outcome
    yielded,     \* the characters __next__ has returned, in order
    \* BufferedStream and the CSVReader over it (Project 2/future/new parse 2.py)
    bs_src,      \* the characters of BufferedStream._file
    bs_tell,     \* the position of BufferedStream._file
    bs_size,     \* BufferedStream._buffer_size
    bs_buffer,   \* BufferedStream._buffer
    bs_pc,       \* "ready", "loop" ("off": not in this run)
    is_escaped, bs_string, bs_row,   \* locals of CSVReader.__next__
    bs_result,   \* outcome of the last finished CSVReader.__next__
    bs_records,  \* the rows CSVReader.__next__ has returned, in order
    bs_stops,    \* number of StopIteration signals of CSVReader.__next__
    \* a BufferedStream used directly (Project 2/future/new parse 2.py)
    rs_src,      \* the characters of BufferedStream._file
    rs_tell,     \* the position of BufferedStream._file
    rs_size,     \* BufferedStream._buffer_size
    rs_buffer,   \* BufferedStream._buffer
    rs_op,       \* the last operation called: "none", "next", "peek", "skip" ("off": not in this run)
    rs_result,   \* its outcome
    rs_yielded,  \* the characters __next__ has returned, in order
    \* a call of get_header_indexes (Project 2/CSVParser.py)
    gh_received, \* its argument received
    gh_op,       \* "none", "get_header_indexes", "on_header" ("off": not in this run)
    gh_result,   \* its outcome
    \* CSVCountryHandler (Project 2/CSVParser.py)
    header_indexes, \* self._header_indexes, Unset while the attribute does not exist
    regions,     \* self._regions, in insertion order: [NAME, COUNTRIES]
    h_op,        \* the last method called: "none", "on_header", "on_row", "on_finish" ("off": not in this run)
    h_arg,       \* its argument
    h_result,    \* its outcome
    h_succeeded, \* an on_header call has returned normally
    h_accepted,  \* the countries on_row has appended, in order
    \* sorted(countries, key=Country.rank) (Project 2/CSVParser.py)
    rk_countries, \* the list to sort
    rk_op,       \* "none", "sorted" ("off": not in this run)
    rk_sorted,   \* the sorted list
    \* Region with running totals (Project 2/new parse.py)
    rg_countries,   \* self._countries
    rg_population,  \* self._population
    rg_land_area,   \* self._land_area
    rg_op,       \* "none", "append" ("off": not in this run)
    \* a PopulationStandardError (Project 2/future/new parse 2.py)
    pse,         \* its fields: [length, total_pop, populations]
    pse_op,      \* the last method called: "none", "visit", "calculate" ("off": not in this run)
    pse_result,  \* its outcome
    \* a PopulationAreaSimilarity (Project 2/future/new parse 2.py)
    pas,         \* its fields: [land_population_product, land_squared, population_squared]
    pas_visited, \* the countries it has visited, in order
    pas_op,      \* the last method called: "none", "visit", "calculate" ("off": not in this run)
    pas_result,  \* its outcome
    \* a call of set_type / _type_data (Project 2/CSVParser.py)
    ty_item,     \* its argument
    ty_op,       \* "none", "set_type" ("off": not in this run)
    ty_result,   \* its outcome
    \* csv_read (ProjectOneCSVParser.py)
    cr_src,      \* the text of the file
    cr_file,     \* the BufferedReader around it: [tell, buffer, index]
    cr_string,   \* the item being collected
    cr_row,      \* the items of the current line
    cr_escaped,  \* inside a quoted span
    cr_pc,       \* "loop", "done" ("off": not in this run)
    cr_yielded,  \* the rows yielded to the consumer
    cr_returned, \* the value carried by the generator's return
    \* handle_country_data (Project 2/future/new parse 2.py)
    hd_data,     \* the rows the reader will give
    hd_pos,      \* rows taken so far
    hd_regions,  \* regions: <<key, members>> in insertion order
    hd_pc,       \* "loop", "returned", "raised" ("off": not in this run)
    hd_result,   \* the outcome of the call
    \* list(CSVReader(BufferedStream(file, size))) for two sizes
    cp_src,      \* the text of the file
    cp_sizes,    \* the two buffer capacities
    cp_records,  \* the records each reader gave, None before it has run
    \* a Region of Project 2/future/new parse 2.py and its calculate
    rc_countries, \* _countries, a set by name, in the order it is iterated
    rc_op,        \* "none", "append", "calculate" ("off": not in this run)
    rc_functions, \* the calculator types of the last call of calculate, kept
                  \* until the region is appended to
    rc_funcs,     \* the calculators that call built, as it left them
    rc_result,    \* the outcome of that call
    rc_calls      \* calls of calculate since the last append

readerVars == <<file, pos, headersArg, headers, pc, caller, escaped, string, row,
                start, result, records, stops>>

bufReaderVars == <<br_src, br_tell, buffer_size, buffer, index, br_op, br_result,
                   yielded>>

streamVars == <<bs_src, bs_tell, bs_size, bs_buffer, bs_pc, is_escaped, bs_string,
                bs_row, bs_result, bs_records, bs_stops>>

rawStreamVars == <<rs_src, rs_tell, rs_size, rs_buffer, rs_op, rs_result, rs_yielded>>

\* the objects of the character-level readers, and those of the country pipeline
readingVars == <<readerVars, bufReaderVars, streamVars, rawStreamVars>>
headerVars == <<gh_received, gh_op, gh_result>>

handlerVars == <<header_indexes, regions, h_op, h_arg, h_result, h_succeeded,
                 h_accepted>>

rankVars == <<rk_countries, rk_op, rk_sorted>>

regionVars == <<rg_countries, rg_population, rg_land_area, rg_op>>

pipelineVars == <<headerVars, handlerVars, rankVars, regionVars>>

standardErrorVars == <<pse, pse_op, pse_result>>

similarityVars == <<pas, pas_visited, pas_op, pas_result>>

typerVars == <<ty_item, ty_op, ty_result>>

csvReadVars == <<cr_src, cr_file, cr_string, cr_row, cr_escaped, cr_pc, cr_yielded,
                 cr_returned>>

countryDataVars == <<hd_data, hd_pos, hd_regions, hd_pc, hd_result>>

capacityVars == <<cp_src, cp_sizes, cp_records>>

calculateVars == <<rc_countries, rc_op, rc_functions, rc_funcs, rc_result, rc_calls>>

\* the objects of the later drafts, and the functions called on their own
draftVars == <<standardErrorVars, similarityVars, typerVars, csvReadVars,
               countryDataVars, capacityVars, calculateVars>>

vars == <<readingVars, pipelineVars, draftVars>>

\* what the operations of one subsystem leave alone
notReaderVars == <<bufReaderVars, streamVars, rawStreamVars, pipelineVars, draftVars>>
notBufReaderVars == <<readerVars, streamVars, rawStreamVars, pipelineVars, draftVars>>
notStreamVars == <<readerVars, bufReaderVars, rawStreamVars, pipelineVars, draftVars>>
notRawStreamVars == <<readerVars, bufReaderVars, streamVars, pipelineVars, draftVars>>
notHeaderVars == <<readingVars, handlerVars, rankVars, regionVars, draftVars>>
notHandlerVars == <<readingVars, headerVars, rankVars, regionVars, draftVars>>
notRankVars == <<readingVars, headerVars, handlerVars, regionVars, draftVars>>
notRegionVars == <<readingVars, headerVars, handlerVars, rankVars, draftVars>>
notStandardErrorVars == <<readingVars, pipelineVars, similarityVars, typerVars,
                          csvReadVars, countryDataVars, capacityVars,
                          calculateVars>>
notSimilarityVars == <<readingVars, pipelineVars, standardErrorVars, typerVars,
                       csvReadVars, countryDataVars, capacityVars, calculateVars>>
notTyperVars == <<readingVars, pipelineVars, standardErrorVars, similarityVars,
                  csvReadVars, countryDataVars, capacityVars, calculateVars>>
notCsvReadVars == <<readingVars, pipelineVars, standardErrorVars, similarityVars,
                    typerVars, countryDataVars, capacityVars, calculateVars>>
notCountryDataVars == <<readingVars, pipelineVars, standardErrorVars,
                        similarityVars, typerVars, csvReadVars, capacityVars,
                        calculateVars>>
notCapacityVars == <<readingVars, pipelineVars, standardErrorVars, similarityVars,
                     typerVars, csvReadVars, countryDataVars, calculateVars>>
notCalculateVars == <<readingVars, pipelineVars, standardErrorVars, similarityVars,
                      typerVars, csvReadVars, countryDataVars, capacityVars>>

\* ------------------------------------------------------------------------
\* CSVReader, Project 2/CSVParser.py
\* ------------------------------------------------------------------------
IdleStream ==
    /\ bs_src = <<>>
    /\ bs_tell = 0
    /\ bs_size = 1
    /\ bs_buffer = <<>>
    /\ bs_pc = "off"
    /\ is_escaped = FALSE
    /\ bs_string = <<>>
    /\ bs_row = <<>>
    /\ bs_result = NoneVal
    /\ bs_records = <<>>
    /\ bs_stops = 0

IdleRawStream ==
    /\ rs_src = <<>>
    /\ rs_tell = 0
    /\ rs_size = 1
    /\ rs_buffer = <<>>
    /\ rs_op = "off"
    /\ rs_result = NoneVal
    /\ rs_yielded = <<>>

\* hasattr(self, '_header_indexes') is false
Unset == <<"unset", <<>>>>

IdleHeaders ==
    /\ gh_received = <<>>
    /\ gh_op = "off"
    /\ gh_result = NoneVal

IdleHandler ==
    /\ header_indexes = Unset
    /\ regions = <<>>
    /\ h_op = "off"
    /\ h_arg = <<>>
    /\ h_result = NoneVal
    /\ h_succeeded = FALSE
    /\ h_accepted = <<>>

IdleRank ==
    /\ rk_countries = <<>>
    /\ rk_op = "off"
    /\ rk_sorted = <<>>

IdleRegion ==
    /\ rg_countries = <<>>
    /\ rg_population = 0
    /\ rg_land_area = 0
    /\ rg_op = "off"

\* PopulationStandardError.__init__
FreshStandardError == [length |-> 0, total_pop |-> 0, populations |-> <<>>]

\* PopulationAreaSimilarity.__init__
FreshSimilarity ==
    [land_population_product |-> 0, land_squared |-> 0, population_squared |-> 0]

IdleStandardError ==
    /\ pse = FreshStandardError
    /\ pse_op = "off"
    /\ pse_result = NoneVal

IdleSimilarity ==
    /\ pas = FreshSimilarity
    /\ pas_visited = <<>>
    /\ pas_op = "off"
    /\ pas_result = NoneVal

IdleTyper ==
    /\ ty_item = <<>>
    /\ ty_op = "off"
    /\ ty_result = NoneVal

IdleCsvRead ==
    /\ cr_src = <<>>
    /\ cr_file = [tell |-> 0, buffer |-> <<>>, index |-> -1]
    /\ cr_string = <<>>
    /\ cr_row = <<>>
    /\ cr_escaped = FALSE
    /\ cr_pc = "off"
    /\ cr_yielded = <<>>
    /\ cr_returned = NoneVal

IdleCountryData ==
    /\ hd_data = <<>>
    /\ hd_pos = 0
    /\ hd_regions = <<>>
    /\ hd_pc = "off"
    /\ hd_result = NoneVal

IdleCapacity ==
    /\ cp_src = <<>>
    /\ cp_sizes = <<>>
    /\ cp_records = <<>>

IdleCalculate ==
    /\ rc_countries = <<>>
    /\ rc_op = "off"
    /\ rc_functions = <<>>
    /\ rc_funcs = <<>>
    /\ rc_result = NoneVal
    /\ rc_calls = 0

\* no object of the later drafts is built in the run, but those of group
IdleDraftsBut(group) ==
    /\ group # "standard error" => IdleStandardError
    /\ group # "similarity" => IdleSimilarity
    /\ group # "typer" => IdleTyper
    /\ group # "csv read" => IdleCsvRead
    /\ group # "country data" => IdleCountryData
    /\ group # "capacity" => IdleCapacity
    /\ group # "calculate" => IdleCalculate

\* no object of the country pipeline is built in the run
IdlePipeline ==
    /\ IdleHeaders
    /\ IdleHandler
    /\ IdleRank
    /\ IdleRegion

IdleBufReader ==
    /\ br_src = <<>>
    /\ br_tell = 0
    /\ buffer_size = 1
    /\ buffer = <<>>
    /\ index = -1
    /\ br_op = "off"
    /\ br_result = NoneVal
    /\ yielded = <<>>

IdleReader ==
    /\ file = <<>>
    /\ headersArg = FALSE
    /\ pos = 0
    /\ headers = NoneVal
    /\ pc = "off"
    /\ caller = "ctor"
    /\ escaped = FALSE
    /\ string = <<>>
    /\ row = <<>>
    /\ start = 0
    /\ result = NoneVal
    /\ records = <<>>
    /\ stops = 0

\* no reader or stream is built in the run
IdleReading ==
    /\ IdleReader
    /\ IdleBufReader
    /\ IdleStream
    /\ IdleRawStream

InitReader ==
    /\ file \in Texts
    /\ headersArg \in BOOLEAN
    /\ pos = 0
    /\ headers = NoneVal
    /\ pc = "new"
    /\ caller = "ctor"
    /\ escaped = FALSE
    /\ string = <<>>
    /\ row = <<>>
    /\ start = 0
    /\ result = NoneVal
    /\ records = <<>>
    /\ stops = 0
    /\ IdleBufReader
    /\ IdleStream
    /\ IdleRawStream
    /\ IdlePipeline
    /\ IdleDraftsBut("none")

\* first statement of __next__: escaped, string, row = False, [], []
EnterNext(who) ==
    /\ caller' = who
    /\ pc' = "loop"
    /\ escaped' = FALSE
    /\ string' = <<>>
    /\ row' = <<>>
    /\ start' = pos
    /\ UNCHANGED <<file, pos, headersArg, headers, result, records, stops>>
    /\ UNCHANGED notReaderVars

\* __init__ with headers=False: self.headers = None
ConstructPlain ==
    /\ pc = "new"
    /\ ~headersArg
    /\ pc' = "ready"
    /\ headers' = NoneVal
    /\ UNCHANGED <<file, pos, headersArg, caller, escaped, string, row, start,
                   result, records, stops>>
    /\ UNCHANGED notReaderVars

\* __init__ with headers=True: self.headers = self.__next__()
ConstructHeaders ==
    /\ pc = "new"
    /\ headersArg
    /\ EnterNext("ctor")

\* the iteration protocol calls __next__
CallNext ==
    /\ pc = "ready"
    /\ stops < MaxStops
    /\ EnterNext("iter")

\* mutant of ReturnRow: the row read for the constructor is yielded as data too
ReturnRowAlsoYieldsHeader(r) ==
    /\ result' = RowVal(r)
    /\ pc' = "ready"
    /\ records' = Append(records, r)
    /\ headers' = IF caller = "ctor" THEN RowVal(r) ELSE headers
    /\ UNCHANGED stops

\* `return row`: the row goes to self.headers (constructor) or to the consumer
ReturnRow(r) ==
    /\ result' = RowVal(r)
    /\ pc' = "ready"
    /\ IF caller = "ctor"
          THEN headers' = RowVal(r) /\ UNCHANGED records
          ELSE records' = Append(records, r) /\ UNCHANGED headers
    /\ UNCHANGED stops

\* `raise StopIteration`: escapes __init__ (construction fails) or ends iteration
RaiseStop ==
    /\ result' = StopIteration
    /\ IF caller = "ctor"
          THEN pc' = "failed" /\ UNCHANGED stops
          ELSE pc' = "ready" /\ stops' = stops + 1
    /\ UNCHANGED <<headers, records>>

\* if self._escape in character: escaped = not escaped; continue
LoopEscape ==
    /\ pc = "loop"
    /\ pos < Len(file)
    /\ file[pos + 1] = Escape
    /\ pos' = pos + 1
    /\ escaped' = ~escaped
    /\ UNCHANGED <<file, headersArg, headers, pc, caller, string, row, start,
                   result, records, stops>>
    /\ UNCHANGED notReaderVars

\* mutant of LoopDelimiter: the `and not escaped` test is missing
LoopDelimiterIgnoresEscaped ==
    /\ pc = "loop"
    /\ pos < Len(file)
    /\ file[pos + 1] = Delimiter
    /\ pos' = pos + 1
    /\ row' = Append(row, string)
    /\ string' = <<>>
    /\ UNCHANGED <<file, headersArg, headers, pc, caller, escaped, start,
                   result, records, stops>>
    /\ UNCHANGED notReaderVars

\* if self._delimiter in character and not escaped: row.append(...); string = []
LoopDelimiter ==
    /\ pc = "loop"
    /\ pos < Len(file)
    /\ file[pos + 1] # Escape
    /\ file[pos + 1] = Delimiter /\ ~escaped
    /\ pos' = pos + 1
    /\ row' = Append(row, string)
    /\ string' = <<>>
    /\ UNCHANGED <<file, headersArg, headers, pc, caller, escaped, start,
                   result, records, stops>>
    /\ UNCHANGED notReaderVars

\* if self._linebreak in character and not escaped: row.append(...); return row
LoopLinebreak ==
    /\ pc = "loop"
    /\ pos < Len(file)
    /\ file[pos + 1] # Escape
    /\ ~(file[pos + 1] = Delimiter /\ ~escaped)
    /\ file[pos + 1] = Linebreak /\ ~escaped
    /\ pos' = pos + 1
    /\ ReturnRow(Append(row, string))
    /\ row' = Append(row, string)
    /\ UNCHANGED <<file, headersArg, caller, escaped, string, start>>
    /\ UNCHANGED notReaderVars

\* string.append(character)
LoopAppend ==
    /\ pc = "loop"
    /\ pos < Len(file)
    /\ file[pos + 1] # Escape
    /\ ~(file[pos + 1] = Delimiter /\ ~escaped)
    /\ ~(file[pos + 1] = Linebreak /\ ~escaped)
    /\ pos' = pos + 1
    /\ string' = Append(string, file[pos + 1])
    /\ UNCHANGED <<file, headersArg, headers, pc, caller, escaped, row, start,
                   result, records, stops>>
    /\ UNCHANGED notReaderVars

\* mutant of LoopEnd: the row is returned without the `if string` test
LoopEndAlwaysReturns ==
    /\ pc = "loop"
    /\ pos = Len(file)
    /\ ReturnRow(Append(row, string))
    /\ row' = Append(row, string)
    /\ UNCHANGED <<file, pos, headersArg, caller, escaped, string, start>>
    /\ UNCHANGED notReaderVars

\* after the for loop: if string: row.append(...); return row / raise StopIteration
LoopEnd ==
    /\ pc = "loop"
    /\ pos = Len(file)
    /\ IF string # <<>>
          THEN ReturnRow(Append(row, string)) /\ row' = Append(row, string)
          ELSE RaiseStop /\ UNCHANGED row
    /\ UNCHANGED <<file, pos, headersArg, caller, escaped, string, start>>
    /\ UNCHANGED notReaderVars

NextReader ==
    \/ ConstructPlain
    \/ ConstructHeaders
    \/ CallNext
    \/ LoopEscape
    \/ LoopDelimiter
    \/ LoopLinebreak
    \/ LoopAppend
    \/ LoopEnd

SpecReader == InitReader /\ [][NextReader]_vars

\* ------------------------------------------------------------------------
\* BufferedReader, ProjectOneCSVParser.py
\* ------------------------------------------------------------------------
\* The file object: file.read(k) at position tell of the text src
FileRead(src, tell, k) == SubSeq(src, tell + 1, Min(tell + k, Len(src)))

FileTellAfterRead(src, tell, k) == Max(tell, Min(tell + k, Len(src)))

\* The reader's fields as a record [tell, buffer, index]
\* fill_buffer: self.index = 0; return self.file.read(size + 1)
fill_buffer(src, st, size) ==
    [tell   |-> FileTellAfterRead(src, st.tell, size + 1),
     buffer |-> FileRead(src, st.tell, size + 1),
     index  |-> 0]

\* __init__: seek(0); self.buffer = self.fill_buffer(size); self.index = -1
BufferedReaderInit(src, size) ==
    [fill_buffer(src, [tell |-> 0, buffer |-> <<>>, index |-> 0], size)
        EXCEPT !.index = -1]

\* mutant of traverse: the seek before the refill forgets the `- 1`
traverse_seeks_one_too_far(src, st, size, k) ==
    IF st.index + k > size
       THEN fill_buffer(src,
                [st EXCEPT !.index = st.index + k,
                           !.tell = st.tell + ((st.index + k) - size)],
                size)
       ELSE [st EXCEPT !.index = st.index + k]

\* traverse(k): self.index += k; past the buffer: seek and refill
traverse(src, st, size, k) ==
    IF st.index + k > size
       THEN fill_buffer(src,
                [st EXCEPT !.index = st.index + k,
                           !.tell = st.tell + ((st.index + k) - size) - 1],
                size)
       ELSE [st EXCEPT !.index = st.index + k]

\* current(): self.buffer[self.index] if self.index > 0 else self.buffer[0]
current(st) ==
    LET i == IF st.index > 0 THEN st.index ELSE 0
    IN  IF i < Len(st.buffer) THEN CharVal(st.buffer[i + 1]) ELSE IndexError

\* __next__: traverse(1), then current(); IndexError becomes StopIteration
next_state(src, st, size) == traverse(src, st, size, 1)

next_result(src, st, size) ==
    IF current(next_state(src, st, size)) = IndexError
       THEN StopIteration
       ELSE current(next_state(src, st, size))

\* peek(): buffer[index + 1]; on IndexError seek(tell() - 1), refill, retry,
\* and '\0' when the retry fails. seek raises ValueError on a negative
\* position, which peek does not catch: the reader is left as it was.
peek_refilled(src, st, size) ==
    fill_buffer(src, [st EXCEPT !.tell = st.tell - 1], size)

peek_state(src, st, size) ==
    IF st.index + 1 < Len(st.buffer) THEN st
    ELSE IF st.tell - 1 < 0 THEN st
    ELSE peek_refilled(src, st, size)

peek_result(src, st, size) ==
    IF st.index + 1 < Len(st.buffer) THEN CharVal(st.buffer[st.index + 2])
    ELSE IF st.tell - 1 < 0 THEN ValueError
    ELSE LET r == peek_refilled(src, st, size)
         IN  IF r.index + 1 < Len(r.buffer)
                THEN CharVal(r.buffer[r.index + 2])
                ELSE CharVal(Nul)

\* sources with pairwise distinct neighbours, so a dropped or repeated
\* character shows
Letters == <<"a", "b", "c", "d", "e", "f", "g", "h">>
SourceOfLen(n) == [i \in 1..n |-> Letters[((i - 1) % Len(Letters)) + 1]]
Sources == {SourceOfLen(n) : n \in 0..MaxSrcLen}

self == [tell |-> br_tell, buffer |-> buffer, index |-> index]

InitBufReader ==
    /\ br_src \in Sources
    /\ buffer_size \in 1..MaxCapacity
    /\ br_tell = BufferedReaderInit(br_src, buffer_size).tell
    /\ buffer = BufferedReaderInit(br_src, buffer_size).buffer
    /\ index = BufferedReaderInit(br_src, buffer_size).index
    /\ br_op = "none"
    /\ br_result = NoneVal
    /\ yielded = <<>>
    /\ IdleReader
    /\ IdleStream
    /\ IdleRawStream
    /\ IdlePipeline
    /\ IdleDraftsBut("none")

\* a consumer calls __next__
BrNext ==
    /\ br_op # "off"
    /\ br_tell' = next_state(br_src, self, buffer_size).tell
    /\ buffer' = next_state(br_src, self, buffer_size).buffer
    /\ index' = next_state(br_src, self, buffer_size).index
    /\ br_op' = "next"
    /\ br_result' = next_result(br_src, self, buffer_size)
    /\ yielded' = IF next_result(br_src, self, buffer_size) = StopIteration
                     THEN yielded
                     ELSE Append(yielded, next_result(br_src, self, buffer_size)[2][1])
    /\ UNCHANGED <<br_src, buffer_size>>
    /\ UNCHANGED notBufReaderVars

\* a consumer calls peek
BrPeek ==
    /\ br_op # "off"
    /\ br_tell' = peek_state(br_src, self, buffer_size).tell
    /\ buffer' = peek_state(br_src, self, buffer_size).buffer
    /\ index' = peek_state(br_src, self, buffer_size).index
    /\ br_op' = "peek"
    /\ br_result' = peek_result(br_src, self, buffer_size)
    /\ UNCHANGED <<br_src, buffer_size, yielded>>
    /\ UNCHANGED notBufReaderVars

\* a consumer calls current(); the reader itself is left alone
BrCurrent ==
    /\ br_op # "off"
    /\ br_op' = "current"
    /\ br_result' = current(self)
    /\ UNCHANGED <<br_src, br_tell, buffer_size, buffer, index, yielded>>
    /\ UNCHANGED notBufReaderVars

NextBufReader ==
    \/ BrNext
    \/ BrPeek
    \/ BrCurrent

SpecBufReader == InitBufReader /\ [][NextBufReader]_vars

\* ------------------------------------------------------------------------
\* BufferedStream and CSVReader, Project 2/future/new parse 2.py
\* (the same two classes are in Project 2/future/buffered reader.py)
\* ------------------------------------------------------------------------
\* The stream's fields as a record [tell, buffer]
\* _fill_buffer: self._buffer = [char for char in self._file.read(size)]
stream_fill_buffer(src, st, size) ==
    [tell   |-> FileTellAfterRead(src, st.tell, size),
     buffer |-> FileRead(src, st.tell, size)]

\* the refill done by __next__ and by peek when the buffer is empty
stream_filled(src, st, size) ==
    IF Len(st.buffer) < 1 THEN stream_fill_buffer(src, st, size) ELSE st

\* BufferedStream.__next__: refill when empty, StopIteration when still
\* empty, else pop the first character of the buffer
stream_next_result(src, st, size) ==
    IF Len(stream_filled(src, st, size).buffer) < 1
       THEN StopIteration
       ELSE CharVal(stream_filled(src, st, size).buffer[1])

\* mutant of __next__: the character returned stays in the buffer
stream_next_keeps_character(src, st, size) == stream_filled(src, st, size)

stream_next_state(src, st, size) ==
    IF Len(stream_filled(src, st, size).buffer) < 1
       THEN stream_filled(src, st, size)
       ELSE [stream_filled(src, st, size)
                EXCEPT !.buffer = Tail(stream_filled(src, st, size).buffer)]

\* BufferedStream.peek: refill when empty; first character of the buffer or '\0'
stream_peek_result(src, st, size) ==
    IF Len(stream_filled(src, st, size).buffer) < 1
       THEN Nul
       ELSE stream_filled(src, st, size).buffer[1]

\* mutant of peek: the refill it does is not kept
stream_peek_forgets_refill(src, st, size) == st

stream_peek_state(src, st, size) == stream_filled(src, st, size)

\* mutant of skip: nothing is discarded
stream_skip_discards_nothing(st) == st

\* BufferedStream.skip: self._buffer = self._buffer[1:]
stream_skip(st) ==
    [st EXCEPT !.buffer = IF st.buffer = <<>> THEN <<>> ELSE Tail(st.buffer)]

stream == [tell |-> bs_tell, buffer |-> bs_buffer]

\* the stream after the for loop of CSVReader.__next__ has taken a character
taken == stream_next_state(bs_src, stream, bs_size)

\* ... and the character it has taken (StopIteration at the end)
character == stream_next_result(bs_src, stream, bs_size)

\* CSVReader is built with headers=False over a fresh BufferedStream
InitStream ==
    /\ bs_src \in BoundedTexts \cup {StreamDemoText}
    /\ bs_size \in 1..MaxCapacity
    /\ bs_tell = 0
    /\ bs_buffer = <<>>
    /\ bs_pc = "ready"
    /\ is_escaped = FALSE
    /\ bs_string = <<>>
    /\ bs_row = <<>>
    /\ bs_result = NoneVal
    /\ bs_records = <<>>
    /\ bs_stops = 0
    /\ IdleReader
    /\ IdleBufReader
    /\ IdleRawStream
    /\ IdlePipeline
    /\ IdleDraftsBut("none")

\* the iteration protocol calls CSVReader.__next__:
\* is_escaped, string, row = False, [], []
SrCallNext ==
    /\ bs_pc = "ready"
    /\ bs_stops < MaxStops
    /\ bs_pc' = "loop"
    /\ is_escaped' = FALSE
    /\ bs_string' = <<>>
    /\ bs_row' = <<>>
    /\ UNCHANGED <<bs_src, bs_tell, bs_size, bs_buffer, bs_result, bs_records, bs_stops>>
    /\ UNCHANGED notStreamVars

\* if self._escape in character and self._escape in self._file.peek():
\*     self._file.skip(); string.append(character); continue
SrLoopDoubledEscape ==
    /\ bs_pc = "loop"
    /\ character = CharVal(Escape)
    /\ stream_peek_result(bs_src, taken, bs_size) = Escape
    /\ bs_tell' = stream_skip(stream_peek_state(bs_src, taken, bs_size)).tell
    /\ bs_buffer' = stream_skip(stream_peek_state(bs_src, taken, bs_size)).buffer
    /\ bs_string' = Append(bs_string, Escape)
    /\ UNCHANGED <<bs_src, bs_size, bs_pc, is_escaped, bs_row, bs_result, bs_records,
                   bs_stops>>
    /\ UNCHANGED notStreamVars

\* if self._escape in character: is_escaped = not is_escaped; continue
\* (peek has run, and has refilled an empty buffer)
SrLoopEscape ==
    /\ bs_pc = "loop"
    /\ character = CharVal(Escape)
    /\ stream_peek_result(bs_src, taken, bs_size) # Escape
    /\ bs_tell' = stream_peek_state(bs_src, taken, bs_size).tell
    /\ bs_buffer' = stream_peek_state(bs_src, taken, bs_size).buffer
    /\ is_escaped' = ~is_escaped
    /\ UNCHANGED <<bs_src, bs_size, bs_pc, bs_string, bs_row, bs_result, bs_records,
                   bs_stops>>
    /\ UNCHANGED notStreamVars

\* if self._delimiter in character and not is_escaped: close the field
SrLoopDelimiter ==
    /\ bs_pc = "loop"
    /\ character = CharVal(Delimiter) /\ ~is_escaped
    /\ bs_tell' = taken.tell
    /\ bs_buffer' = taken.buffer
    /\ bs_row' = Append(bs_row, bs_string)
    /\ bs_string' = <<>>
    /\ UNCHANGED <<bs_src, bs_size, bs_pc, is_escaped, bs_result, bs_records, bs_stops>>
    /\ UNCHANGED notStreamVars

\* if self._linebreak in character and not is_escaped: close the field, return row
SrLoopLinebreak ==
    /\ bs_pc = "loop"
    /\ character = CharVal(Linebreak) /\ ~is_escaped
    /\ bs_tell' = taken.tell
    /\ bs_buffer' = taken.buffer
    /\ bs_row' = Append(bs_row, bs_string)
    /\ bs_result' = RowVal(Append(bs_row, bs_string))
    /\ bs_records' = Append(bs_records, Append(bs_row, bs_string))
    /\ bs_pc' = "ready"
    /\ UNCHANGED <<bs_src, bs_size, is_escaped, bs_string, bs_stops>>
    /\ UNCHANGED notStreamVars

\* string.append(character)
SrLoopAppend ==
    /\ bs_pc = "loop"
    /\ character # StopIteration
    /\ character # CharVal(Escape)
    /\ ~(character = CharVal(Delimiter) /\ ~is_escaped)
    /\ ~(character = CharVal(Linebreak) /\ ~is_escaped)
    /\ bs_tell' = taken.tell
    /\ bs_buffer' = taken.buffer
    /\ bs_string' = Append(bs_string, character[2][1])
    /\ UNCHANGED <<bs_src, bs_size, bs_pc, is_escaped, bs_row, bs_result, bs_records,
                   bs_stops>>
    /\ UNCHANGED notStreamVars

\* the stream is exhausted: if string: return row, else raise StopIteration
SrLoopEnd ==
    /\ bs_pc = "loop"
    /\ character = StopIteration
    /\ bs_tell' = taken.tell
    /\ bs_buffer' = taken.buffer
    /\ bs_pc' = "ready"
    /\ IF bs_string # <<>>
          THEN /\ bs_row' = Append(bs_row, bs_string)
               /\ bs_result' = RowVal(Append(bs_row, bs_string))
               /\ bs_records' = Append(bs_records, Append(bs_row, bs_string))
               /\ UNCHANGED bs_stops
          ELSE /\ bs_result' = StopIteration
               /\ bs_stops' = bs_stops + 1
               /\ UNCHANGED <<bs_row, bs_records>>
    /\ UNCHANGED <<bs_src, bs_size, is_escaped, bs_string>>
    /\ UNCHANGED notStreamVars

\* between two calls of __next__ the consumer calls self._file.peek()
SrPeek ==
    /\ bs_pc = "ready"
    /\ bs_tell' = stream_peek_state(bs_src, stream, bs_size).tell
    /\ bs_buffer' = stream_peek_state(bs_src, stream, bs_size).buffer
    /\ bs_result' = CharVal(stream_peek_result(bs_src, stream, bs_size))
    /\ UNCHANGED <<bs_src, bs_size, bs_pc, is_escaped, bs_string, bs_row, bs_records,
                   bs_stops>>
    /\ UNCHANGED notStreamVars

NextStream ==
    \/ SrPeek
    \/ SrCallNext
    \/ SrLoopDoubledEscape
    \/ SrLoopEscape
    \/ SrLoopDelimiter
    \/ SrLoopLinebreak
    \/ SrLoopAppend
    \/ SrLoopEnd

SpecStream == InitStream /\ [][NextStream]_vars

\* ------------------------------------------------------------------------
\* A BufferedStream driven directly by its consumer: __next__, peek, skip
\* ------------------------------------------------------------------------
rawStream == [tell |-> rs_tell, buffer |-> rs_buffer]

\* BufferedStream.__init__: the buffer starts empty, nothing is read yet
InitRawStream ==
    /\ rs_src \in Sources
    /\ rs_size \in 1..MaxCapacity
    /\ rs_tell = 0
    /\ rs_buffer = <<>>
    /\ rs_op = "none"
    /\ rs_result = NoneVal
    /\ rs_yielded = <<>>
    /\ IdleReader
    /\ IdleBufReader
    /\ IdleStream
    /\ IdlePipeline
    /\ IdleDraftsBut("none")

RsNext ==
    /\ rs_op # "off"
    /\ rs_tell' = stream_next_state(rs_src, rawStream, rs_size).tell
    /\ rs_buffer' = stream_next_state(rs_src, rawStream, rs_size).buffer
    /\ rs_op' = "next"
    /\ rs_result' = stream_next_result(rs_src, rawStream, rs_size)
    /\ rs_yielded' = IF stream_next_result(rs_src, rawStream, rs_size) = StopIteration
                        THEN rs_yielded
                        ELSE Append(rs_yielded,
                                    stream_next_result(rs_src, rawStream, rs_size)[2][1])
    /\ UNCHANGED <<rs_src, rs_size>>
    /\ UNCHANGED notRawStreamVars

RsPeek ==
    /\ rs_op # "off"
    /\ rs_tell' = stream_peek_state(rs_src, rawStream, rs_size).tell
    /\ rs_buffer' = stream_peek_state(rs_src, rawStream, rs_size).buffer
    /\ rs_op' = "peek"
    /\ rs_result' = CharVal(stream_peek_result(rs_src, rawStream, rs_size))
    /\ UNCHANGED <<rs_src, rs_size, rs_yielded>>
    /\ UNCHANGED notRawStreamVars

\* skip returns None
RsSkip ==
    /\ rs_op # "off"
    /\ rs_tell' = stream_skip(rawStream).tell
    /\ rs_buffer' = stream_skip(rawStream).buffer
    /\ rs_op' = "skip"
    /\ rs_result' = NoneVal
    /\ UNCHANGED <<rs_src, rs_size, rs_yielded>>
    /\ UNCHANGED notRawStreamVars

NextRawStream ==
    \/ RsNext
    \/ RsPeek
    \/ RsSkip

SpecRawStream == InitRawStream /\ [][NextRawStream]_vars

\* ------------------------------------------------------------------------
\* Reference notions the claims about CSVReader are stated with
\* ------------------------------------------------------------------------
Range(s) == {s[i] : i \in DOMAIN s}

Count(s, c) == Cardinality({i \in DOMAIN s : s[i] = c})

Odd(n) == n % 2 = 1

\* the pieces of t between the occurrences of sep
RECURSIVE SplitAt(_, _)
SplitAt(t, sep) ==
    IF sep \notin Range(t)
       THEN <<t>>
       ELSE LET i == CHOOSE k \in DOMAIN t :
                        t[k] = sep /\ \A j \in 1..(k - 1) : t[j] # sep
            IN  <<SubSeq(t, 1, i - 1)>> \o SplitAt(SubSeq(t, i + 1, Len(t)), sep)

\* the line-break-separated lines of t (a final line-break ends the last line)
Lines(t) ==
    LET p == SplitAt(t, Linebreak)
    IN  IF p[Len(p)] = <<>> THEN SubSeq(p, 1, Len(p) - 1) ELSE p

\* every line split at every delimiter
ExpectedRows(t) == [i \in 1..Len(Lines(t)) |-> SplitAt(Lines(t)[i], Delimiter)]

\* position i of t holds a line-break outside every quoted span
UnescapedBreakAt(t, i) ==
    /\ t[i] = Linebreak
    /\ ~Odd(Count(SubSeq(t, 1, i - 1), Escape))

UnescapedBreaks(t) == {i \in DOMAIN t : UnescapedBreakAt(t, i)}

\* the position at which the first record of t ends
FirstRecordEnd(t) ==
    IF UnescapedBreaks(t) = {}
       THEN Len(t)
       ELSE CHOOSE i \in UnescapedBreaks(t) : \A j \in UnescapedBreaks(t) : i <= j

IsPrefix(s, t) == Len(s) <= Len(t) /\ s = SubSeq(t, 1, Len(s))

\* the iteration has run into StopIteration
IterationDone == stops >= 1

\* everything __next__ has returned so far, the header row first
AllRows == IF headers = NoneVal THEN records ELSE <<headers[2]>> \o records

\* ------------------------------------------------------------------------
\* Claims about CSVReader (Project 2/CSVParser.py), checked under SpecReader
\* ------------------------------------------------------------------------

\* C1: for an input without escape character, once the iteration has ended
\* the rows produced are exactly the line-break-separated lines of the
\* input, in order, each split at every delimiter.
C1_RowsAreTheLines ==
    (IterationDone /\ Escape \notin Range(file)) => AllRows = ExpectedRows(file)

\* C2: while a quoted span is open (an odd number of escape characters seen
\* so far in the record) a delimiter or line-break is appended to the
\* current field as a literal and closes neither a field nor a record; an
\* escape character is never appended; the test input with escaped commas
\* and newlines yields ['with', 'escaped\n', 'newlines', 'and', 'com,mas'].
C2_SpanOpen == Odd(Count(SubSeq(file, start + 1, pos), Escape))

C2_State ==
    /\ pc = "loop" => (escaped <=> C2_SpanOpen)
    /\ Escape \notin Range(string)
    /\ \A i \in DOMAIN row : Escape \notin Range(row[i])
    /\ \A i \in DOMAIN AllRows : \A j \in DOMAIN AllRows[i] :
           Escape \notin Range(AllRows[i][j])
    /\ (file = TestSkipsEscaped /\ ~headersArg /\ IterationDone) =>
           records = << << <<"w","i","t","h">>,
                           <<"e","s","c","a","p","e","d","\n">>,
                           <<"n","e","w","l","i","n","e","s">>,
                           <<"a","n","d">>,
                           <<"c","o","m",",","m","a","s">> >> >>

C2_Step ==
    (pc = "loop" /\ pos < Len(file)) =>
        /\ (C2_SpanOpen /\ file[pos + 1] \in {Delimiter, Linebreak}) =>
              /\ string' = Append(string, file[pos + 1])
              /\ row' = row
              /\ pc' = "loop"
              /\ records' = records
              /\ headers' = headers
        /\ file[pos + 1] = Escape => (string' = string /\ row' = row)

C4_DoubledEscapeDecodes ==
    (file = TestEscapingEscape /\ ~headersArg /\ IterationDone) =>
        records = << << <<>>, <<Escape>>, <<" ", Escape, " ">> >> >>

\* C5: when the source is exhausted in the middle of a record (a field was
\* already closed by a delimiter or the current field is non-empty), one
\* final record with all of those fields is emitted before end-of-sequence
\* is signalled: StopIteration is never raised with pending fields, 'a,b,c'
\* yields ['a','b','c'] and ',,,\n,,,' yields two records of four empty
\* strings.
C5_FinalRecordEmitted ==
    /\ (pc # "loop" /\ result = StopIteration) => (row = <<>> /\ string = <<>>)
    /\ (file = TestNoTrailingNewline /\ ~headersArg /\ IterationDone) =>
           records = << << <<"a">>, <<"b">>, <<"c">> >> >>
    /\ (file = TestStringOfCommas /\ ~headersArg /\ IterationDone) =>
           records = << << <<>>, <<>>, <<>>, <<>> >>, << <<>>, <<>>, <<>>, <<>> >> >>

\* C6: an empty source yields zero records; a source whose last character
\* is an unescaped line-break yields no extra empty record after its last
\* line; no row is ever returned by a call that consumed nothing; and
\* end-of-sequence is signalled as soon as the source is exhausted with
\* empty field and record accumulators.
C6_State ==
    /\ file = <<>> => (records = <<>> /\ headers = NoneVal)
    /\ (pc # "loop" /\ result[1] = "row") => start < pos
    /\ (IterationDone /\ file # <<>> /\ UnescapedBreakAt(file, Len(file))) =>
           Len(AllRows) = Cardinality(UnescapedBreaks(file))

C6_Step ==
    (pc = "loop" /\ pos = Len(file) /\ string = <<>> /\ row = <<>>) =>
        /\ result' = StopIteration
        /\ records' = records
        /\ headers' = headers

C7_Constructed == pc = "ready" \/ (pc = "loop" /\ caller = "iter")

C7_Rest == SubSeq(file, FirstRecordEnd(file) + 1, Len(file))

C8_YieldsTheSource ==
    /\ IsPrefix(yielded, br_src)
    /\ br_op = "next" =>
          \/ br_result = StopIteration /\ yielded = br_src
          \/ yielded # <<>> /\ br_result = CharVal(yielded[Len(yielded)])

\* a source of two full buffers (a multiple of capacity + 1) has been read
\* to its end
C8_Witness ==
    /\ Len(br_src) = 2 * (buffer_size + 1)
    /\ yielded = br_src
    /\ br_op = "next"
    /\ br_result = StopIteration

\* C9: peek does not consume: it returns the character the next advance
\* will yield, leaves current() unchanged and leaves what is yielded
\* afterwards unchanged.
C9_PeekStep ==
    br_op' = "peek" =>
        /\ Len(yielded) < Len(br_src) =>
               br_result' = CharVal(br_src[Len(yielded) + 1])
        /\ current(self') = current(self)
        /\ yielded' = yielded

C9_PeekDoesNotConsume == [](C8_YieldsTheSource) /\ [][C9_PeekStep]_vars

\* C10: peek returns the sentinel '\0' instead of raising whenever no
\* character follows the current one (current() is the last character, the
\* iterator is exhausted, or the source is empty), and never raises.
C10_PeekSentinelAtEnd ==
    br_op = "peek" =>
        /\ br_result[1] = "char"
        /\ Len(yielded) = Len(br_src) => br_result = CharVal(Nul)

\* C11: current() fails with an empty-buffer error when it is called before
\* the first advance (index still -1), and otherwise returns the last
\* character yielded by an advance.
C11_CurrentIsLastYielded ==
    br_op = "current" =>
        IF index = -1
           THEN br_result = IndexError
           ELSE /\ yielded # <<>>
                /\ br_result = CharVal(yielded[Len(yielded)])

\* ------------------------------------------------------------------------
\* Claims about CSVReader over BufferedStream (future/new parse 2.py),
\* checked under SpecStream
\* ------------------------------------------------------------------------
\* the number of source characters the stream has delivered or discarded
Consumed == bs_tell - Len(bs_buffer)

\* C3: whenever the current character is the escape character and peek()
\* is the escape character too, both are consumed, exactly one literal
\* escape character is appended to the field and the escaped flag is left
\* as it is, whether or not a quoted span is open; an escape character not
\* followed by another one only toggles the flag and is not appended.
C3_Step ==
    (bs_pc = "loop" /\ Consumed < Len(bs_src) /\ bs_src[Consumed + 1] = Escape) =>
        IF Consumed + 1 < Len(bs_src) /\ bs_src[Consumed + 2] = Escape
           THEN /\ Consumed' = Consumed + 2
                /\ bs_string' = Append(bs_string, Escape)
                /\ is_escaped' = is_escaped
                /\ bs_row' = bs_row
                /\ bs_pc' = "loop"
           ELSE /\ Consumed' = Consumed + 1
                /\ bs_string' = bs_string
                /\ is_escaped' = ~is_escaped
                /\ bs_row' = bs_row
                /\ bs_pc' = "loop"

C3_State ==
    /\ bs_buffer = SubSeq(bs_src, Consumed + 1, bs_tell)
    /\ Count(bs_string, Escape) <= Count(SubSeq(bs_src, 1, Consumed), Escape) \div 2

C3_DoubledEscapeIsLiteral == [](C3_State) /\ [][C3_Step]_vars

\* the demonstration input, with a doubled escape outside a quoted span
\* (tw""o) and one inside ("ni""ne"), has been read to its end
C3_Witness ==
    /\ bs_src = StreamDemoText
    /\ bs_stops >= 1
    /\ bs_records = StreamDemoRows

\* ------------------------------------------------------------------------
\* Claims about BufferedStream used directly, under SpecRawStream
\* ------------------------------------------------------------------------
\* what the consumer has still to receive: the buffer, then the unread source
Pending == rs_buffer \o SubSeq(rs_src, rs_tell + 1, Len(rs_src))

\* C12: whenever the source still has an unread character, the buffer being
\* empty or not, skip() discards exactly the next character, so that the
\* following advance yields the character after it; skip() never yields a
\* character and never discards more than one.
C12_SkipStep ==
    rs_op' = "skip" =>
        /\ Pending # <<>> => Pending' = Tail(Pending)
        /\ Len(Pending') >= Len(Pending) - 1
        /\ rs_yielded' = rs_yielded
        /\ rs_result' = NoneVal

C12_SkipDiscardsOne == [][C12_SkipStep]_vars

\* ------------------------------------------------------------------------
\* Strings of the country pipeline, Project 2/CSVParser.py
\* ------------------------------------------------------------------------
\* a str is the sequence of its characters
UpperCase == <<"A", "B", "C", "D", "E", "F", "G", "H", "I", "J", "K", "L", "M",
               "N", "O", "P", "Q", "R", "S", "T", "U", "V", "W", "X", "Y", "Z">>
LowerCase == <<"a", "b", "c", "d", "e", "f", "g", "h", "i", "j", "k", "l", "m",
               "n", "o", "p", "q", "r", "s", "t", "u", "v", "w", "x", "y", "z">>
Digits == <<"0", "1", "2", "3", "4", "5", "6", "7", "8", "9">>

PositionIn(seq, x) == CHOOSE i \in 1..Len(seq) : seq[i] = x

\* str.lower, character by character
LowerOf == [c \in Range(UpperCase) |-> LowerCase[PositionIn(UpperCase, c)]]

LowerChar(c) == IF c \in DOMAIN LowerOf THEN LowerOf[c] ELSE c

lower(str) == [i \in 1..Len(str) |-> LowerChar(str[i])]

\* ord() of the characters in use
OrdOf ==
    [c \in Range(UpperCase) \cup Range(LowerCase) \cup Range(Digits)
           \cup {"+", "-", " ", Nul} |->
        IF c \in Range(UpperCase) THEN 64 + PositionIn(UpperCase, c)
        ELSE IF c \in Range(LowerCase) THEN 96 + PositionIn(LowerCase, c)
        ELSE IF c \in Range(Digits) THEN 47 + PositionIn(Digits, c)
        ELSE IF c = "+" THEN 43
        ELSE IF c = "-" THEN 45
        ELSE IF c = " " THEN 32
        ELSE 0]

CodePoint(c) == OrdOf[c]

\* a < b on str: at the first difference the smaller code point, else the
\* shorter string
StrLess(a, b) ==
    \E k \in 0..Min(Len(a), Len(b)) :
        /\ \A i \in 1..k : a[i] = b[i]
        /\ \/ k = Len(a) /\ k < Len(b)
           \/ k < Len(a) /\ k < Len(b) /\ CodePoint(a[k + 1]) < CodePoint(b[k + 1])

\* the expected headers of main() and of the test suite
country == <<"c", "o", "u", "n", "t", "r", "y">>
population == <<"p", "o", "p", "u", "l", "a", "t", "i", "o", "n">>
net_change == <<"n", "e", "t", " ", "c", "h", "a", "n", "g", "e">>
land_area == <<"l", "a", "n", "d", " ", "a", "r", "e", "a">>
regions_heading == <<"r", "e", "g", "i", "o", "n", "s">>
expected_headers == <<country, population, net_change, land_area, regions_heading>>

\* other headings of the test suite, and headings in other letter case
lol == <<"l", "o", "l">>
Country_capitalised == <<"C", "o", "u", "n", "t", "r", "y">>
REGIONS_upper == <<"R", "E", "G", "I", "O", "N", "S">>

TestHeadersWithNoise ==
    <<country, <<"N", "o", "n", "s", "e", "n", "s", "e">>, population,
      <<"m", "o", "r", "e", " ", "n", "o", "n", "s", "e", "n", "s", "e">>,
      net_change, land_area, lol, regions_heading>>
TestOnHeaderRandomOrder ==
    <<population, country, regions_heading, land_area, net_change>>
TestOnHeaderWithNoise ==
    <<land_area, lol, country,
      <<"s", "t", "a", "t", "i", "s", "t", "i", "c", "a", "l", " ", "b", "s">>,
      net_change, population,
      <<"h", "e", "l", "l", "o", " ", "t", "h", "e", "r", "e">>,
      regions_heading>>

\* ------------------------------------------------------------------------
\* get_header_indexes and CSVCountryHandler.on_header
\* ------------------------------------------------------------------------
TupleVal(t) == <<"tuple", t>>
ValueErrorOf(message) == <<"ValueError", <<message>>>>
NotInTuple == ValueErrorOf("tuple.index(x): x not in tuple")
HeaderMissing == ValueErrorOf("At least one header missing.")
MissingData == ValueErrorOf("Row contains missing data")
TypeMismatch == ValueErrorOf("Type Mismatch")
InvalidLiteral == ValueErrorOf("invalid literal for int() with base 10")
NoHeaders == <<"AttributeError", <<"No Headers">>>>
ZeroDivisionError == <<"ZeroDivisionError", <<>>>>

\* received = tuple(heading.lower() for heading in received)
lowered(received) == [i \in 1..Len(received) |-> lower(received[i])]

\* mutant of tuple.index: positions counted from 1
tuple_index_from_one(t, x) ==
    CHOOSE i \in 1..Len(t) : t[i] = x /\ \A j \in 1..(i - 1) : t[j] # x

\* tuple.index: the first position, counted from 0
tuple_index(t, x) ==
    (CHOOSE i \in 1..Len(t) : t[i] = x /\ \A j \in 1..(i - 1) : t[j] # x) - 1

\* tuple(received.index(header) for header in expected): the first header
\* that is not there raises ValueError
get_header_indexes(received, expected) ==
    LET low == lowered(received)
    IN IF \A j \in 1..Len(expected) : \E i \in 1..Len(low) : low[i] = expected[j]
          THEN TupleVal([j \in 1..Len(expected) |-> tuple_index(low, expected[j])])
          ELSE NotInTuple

\* ------------------------------------------------------------------------
\* CSVCountryHandler.on_row: typing, Country, Region
\* ------------------------------------------------------------------------
\* typed values: an int, or a str
IntVal(n) == <<"int", n>>
StrVal(str) == <<"str", str>>

\* str.lstrip(chars): the leading characters that are in chars are dropped
lstrip(str, chars) ==
    SubSeq(str,
           Len(str) + 1 - Cardinality({i \in 1..Len(str) :
                                          \E j \in 1..i : str[j] \notin chars}),
           Len(str))

\* str.isdigit, on the characters in use: not empty, decimal digits only
DigitSet == Range(Digits)

isdigit(str) == str # <<>> /\ \A i \in 1..Len(str) : str[i] \in DigitSet

\* the number a string of decimal digits denotes
RECURSIVE DigitsValue(_)
DigitsValue(str) ==
    IF str = <<>> THEN 0
    ELSE 10 * DigitsValue(SubSeq(str, 1, Len(str) - 1))
            + (PositionIn(Digits, str[Len(str)]) - 1)

\* int(item) on a string of signs and digits: at most one sign is a literal
int(item) ==
    IF isdigit(item) THEN IntVal(DigitsValue(item))
    ELSE IF item # <<>> /\ item[1] = "+" /\ isdigit(Tail(item))
            THEN IntVal(DigitsValue(Tail(item)))
    ELSE IF item # <<>> /\ item[1] = "-" /\ isdigit(Tail(item))
            THEN IntVal(0 - DigitsValue(Tail(item)))
    ELSE InvalidLiteral

\* CSVCountryHandler._type_data:
\* int(item) if item.lstrip('-+').isdigit() else item
type_data(item) ==
    IF isdigit(lstrip(item, {"-", "+"})) THEN int(item) ELSE StrVal(item)

\* data = [self._type_data(item) for item in data]
typed(data) == [i \in 1..Len(data) |-> type_data(data[i])]

\* Country.__init__: the five bound columns of the typed row
Country(data, indexes) ==
    [NAME       |-> data[indexes[1] + 1],
     POPULATION |-> data[indexes[2] + 1],
     NET_CHANGE |-> data[indexes[3] + 1],
     LAND_AREA  |-> data[indexes[4] + 1],
     REGION     |-> data[indexes[5] + 1]]

\* CSVCountryHandler._country_is_valid with (str, int, int, int, str)
country_is_valid(c) ==
    <<c.NAME[1], c.POPULATION[1], c.NET_CHANGE[1], c.LAND_AREA[1], c.REGION[1]>>
        = <<"str", "int", "int", "int", "str">>

\* the values of a valid country
Values(c) ==
    [NAME       |-> c.NAME[2],
     POPULATION |-> c.POPULATION[2],
     NET_CHANGE |-> c.NET_CHANGE[2],
     LAND_AREA  |-> c.LAND_AREA[2],
     REGION     |-> c.REGION[2]]

\* the strings on_row takes for missing data: '\0' and ''
IsMissing(item) == item = <<Nul>> \/ item = <<>>

\* mutant of on_row: the fields are typed before the check for missing data
on_row_result_types_first(indexes, data) ==
    IF indexes = Unset THEN NoHeaders
    ELSE IF \E i \in 1..Len(data) : type_data(data[i]) = InvalidLiteral
            THEN InvalidLiteral
    ELSE IF \E i \in 1..Len(data) : IsMissing(data[i]) THEN MissingData
    ELSE IF \E j \in 1..Len(indexes[2]) : indexes[2][j] >= Len(data)
            THEN IndexError
    ELSE IF ~country_is_valid(Country(typed(data), indexes[2])) THEN TypeMismatch
    ELSE NoneVal

\* the outcome of on_row(data), in the order of its statements
on_row_result(indexes, data) ==
    IF indexes = Unset THEN NoHeaders
    ELSE IF \E i \in 1..Len(data) : IsMissing(data[i]) THEN MissingData
    ELSE IF \E i \in 1..Len(data) : type_data(data[i]) = InvalidLiteral
            THEN InvalidLiteral
    ELSE IF \E j \in 1..Len(indexes[2]) : indexes[2][j] >= Len(data)
            THEN IndexError
    ELSE IF ~country_is_valid(Country(typed(data), indexes[2])) THEN TypeMismatch
    ELSE NoneVal

\* mutant of the grouping in on_row: a Region is created for every row
regions_with_always_new(regs, c) ==
    Append(regs, [NAME |-> c.REGION, COUNTRIES |-> <<c>>])

\* self._regions after on_row has accepted the country: a new Region for a
\* new key new_country.REGION, then Region.append
regions_with(regs, c) ==
    IF \E i \in 1..Len(regs) : regs[i].NAME = c.REGION
       THEN [i \in 1..Len(regs) |->
                IF regs[i].NAME = c.REGION
                   THEN [regs[i] EXCEPT !.COUNTRIES = Append(@, c)]
                   ELSE regs[i]]
       ELSE Append(regs, [NAME |-> c.REGION, COUNTRIES |-> <<c>>])

\* ------------------------------------------------------------------------
\* CSVCountryHandler.on_finish: Country.rank, sorted, the two mappings
\* ------------------------------------------------------------------------
Abs(n) == IF n < 0 THEN 0 - n ELSE n

RECURSIVE Gcd(_, _)
Gcd(m, n) == IF n = 0 THEN m ELSE Gcd(n, m % n)

\* the quotient n / d of two ints, d # 0, in lowest terms with a positive
\* denominator, so that equal quotients are equal values
Quotient(n, d) ==
    [num |-> (IF d < 0 THEN 0 - n ELSE n) \div Gcd(Abs(n), Abs(d)),
     den |-> Abs(d) \div Gcd(Abs(n), Abs(d))]

QuotientLess(x, y) == x.num * y.den < y.num * x.den

RECURSIVE Sum(_)
Sum(numbers) ==
    IF numbers = <<>> THEN 0 ELSE numbers[1] + Sum(Tail(numbers))

\* mutant of Country.rank: the density is not negated
rank_density_ascending(c) ==
    <<0 - c.POPULATION, Quotient(c.POPULATION, c.LAND_AREA), c.NAME>>

\* Country.rank: -POPULATION, -POPULATION / LAND_AREA, NAME
rank(c) ==
    <<0 - c.POPULATION, Quotient(0 - c.POPULATION, c.LAND_AREA), c.NAME>>

\* k1 < k2 on the tuples rank returns
rank_less(k1, k2) ==
    \/ k1[1] < k2[1]
    \/ k1[1] = k2[1] /\ QuotientLess(k1[2], k2[2])
    \/ k1[1] = k2[1] /\ k1[2] = k2[2] /\ StrLess(k1[3], k2[3])

\* sorted(countries, key=Country.rank): ascending in the key, countries of
\* equal key in their order in the list
RECURSIVE sorted_by_rank(_)
sorted_by_rank(countries) ==
    IF countries = <<>> THEN <<>>
    ELSE LET front == sorted_by_rank(SubSeq(countries, 1, Len(countries) - 1))
             last == countries[Len(countries)]
             n == Cardinality({i \in 1..Len(front) :
                                  ~rank_less(rank(last), rank(front[i]))})
         IN SubSeq(front, 1, n) \o <<last>> \o SubSeq(front, n + 1, Len(front))

\* dict[key] = value: a known key keeps its place and takes the new value
dict_set(dict, key, value) ==
    IF \E i \in 1..Len(dict) : dict[i][1] = key
       THEN [i \in 1..Len(dict) |->
                IF dict[i][1] = key THEN <<key, value>> ELSE dict[i]]
       ELSE Append(dict, <<key, value>>)

RegionPopulation(region) ==
    Sum([i \in 1..Len(region.COUNTRIES) |-> region.COUNTRIES[i].POPULATION])

\* the entry of one country: population, net change, percent of the region's
\* population, density, position (the two quotients are kept exact)
breakdown_entry(c, position, total) ==
    <<c.POPULATION, c.NET_CHANGE, Quotient(c.POPULATION * 100, total),
      Quotient(c.POPULATION, c.LAND_AREA), position>>

\* region_data after the first n countries of the sorted list
RECURSIVE region_data(_, _, _)
region_data(countries, n, total) ==
    IF n = 0 THEN <<>>
    ELSE dict_set(region_data(countries, n - 1, total), countries[n].NAME,
                  breakdown_entry(countries[n], n, total))

\* standard_error(mean, items) with mean = sum(items) / len(items), as the
\* exact square of its value:
\* (sum((x - mean) ** 2) / (len - 1)) / len
standard_error_squared(items) ==
    Quotient(Sum([i \in 1..Len(items) |->
                     (Len(items) * items[i] - Sum(items))
                         * (Len(items) * items[i] - Sum(items))]),
             Len(items) * Len(items) * (Len(items) - 1) * Len(items))

\* cosine_similarity(a, b): the dot product, and the square of the divisor
cosine_similarity(a, b) ==
    [dot |-> Sum([i \in 1..Len(a) |-> a[i] * b[i]]),
     divisor_squared |-> Sum([i \in 1..Len(a) |-> a[i] * a[i]])
                            * Sum([i \in 1..Len(b) |-> b[i] * b[i]])]

\* the divisions of on_finish that raise ZeroDivisionError for a region:
\* rank and the density (LAND_AREA), the percentage (region.population),
\* standard_error (len(items) - 1), cosine_similarity
DividesByZero(region) ==
    \/ \E i \in 1..Len(region.COUNTRIES) : region.COUNTRIES[i].LAND_AREA = 0
    \/ RegionPopulation(region) = 0
    \/ Len(region.COUNTRIES) - 1 = 0
    \/ cosine_similarity(
           [i \in 1..Len(region.COUNTRIES) |-> region.COUNTRIES[i].LAND_AREA],
           [i \in 1..Len(region.COUNTRIES) |-> region.COUNTRIES[i].POPULATION]
       ).divisor_squared = 0

\* regions[region.NAME] = region_data
breakdown(region) ==
    region_data(sorted_by_rank(region.COUNTRIES), Len(region.COUNTRIES),
                RegionPopulation(region))

\* stats[region.NAME] = [standard_error(mean, pop), cosine_similarity(land, pop)]
region_stats(region) ==
    LET countries == sorted_by_rank(region.COUNTRIES)
        land == [i \in 1..Len(countries) |-> countries[i].LAND_AREA]
        pop == [i \in 1..Len(countries) |-> countries[i].POPULATION]
    IN <<standard_error_squared(pop), cosine_similarity(land, pop)>>

ReturnVal(stats, breakdowns) ==
    <<"return", <<stats, breakdowns>>>>

\* on_finish: the two mappings, keyed by region.NAME, or the first
\* ZeroDivisionError
on_finish(regs) ==
    IF \E i \in 1..Len(regs) : DividesByZero(regs[i]) THEN ZeroDivisionError
    ELSE ReturnVal([i \in 1..Len(regs) |-> <<regs[i].NAME, region_stats(regs[i])>>],
                   [i \in 1..Len(regs) |-> <<regs[i].NAME, breakdown(regs[i])>>])

\* ------------------------------------------------------------------------
\* CSVCountryHandler: the calls a reader-driven run makes
\* ------------------------------------------------------------------------
\* CSVCountryHandler.__init__(expected_headers): no header bound, no region
FreshHandler ==
    /\ header_indexes = Unset
    /\ regions = <<>>
    /\ h_op = "none"
    /\ h_arg = <<>>
    /\ h_result = NoneVal
    /\ h_succeeded = FALSE
    /\ h_accepted = <<>>

\* mutant of on_header: a failed call drops the binding
OnHeaderDropsBinding(received) ==
    /\ h_op # "off"
    /\ h_op' = "on_header"
    /\ h_arg' = received
    /\ LET found == get_header_indexes(received, expected_headers)
       IN IF found = NotInTuple
             THEN /\ h_result' = HeaderMissing
                  /\ header_indexes' = Unset
                  /\ UNCHANGED h_succeeded
             ELSE /\ h_result' = NoneVal
                  /\ header_indexes' = found
                  /\ h_succeeded' = TRUE
    /\ UNCHANGED <<regions, h_accepted>>
    /\ UNCHANGED notHandlerVars

\* on_header(received): the binding is assigned only when every expected
\* header has been found
OnHeader(received) ==
    /\ h_op # "off"
    /\ h_op' = "on_header"
    /\ h_arg' = received
    /\ LET found == get_header_indexes(received, expected_headers)
       IN IF found = NotInTuple
             THEN /\ h_result' = HeaderMissing
                  /\ UNCHANGED <<header_indexes, h_succeeded>>
             ELSE /\ h_result' = NoneVal
                  /\ header_indexes' = found
                  /\ h_succeeded' = TRUE
    /\ UNCHANGED <<regions, h_accepted>>
    /\ UNCHANGED notHandlerVars

\* on_row(data)
OnRow(data) ==
    /\ h_op # "off"
    /\ Len(h_accepted) < MaxRows
    /\ h_op' = "on_row"
    /\ h_arg' = data
    /\ LET outcome == on_row_result(header_indexes, data)
           new_country == Values(Country(typed(data), header_indexes[2]))
       IN /\ h_result' = outcome
          /\ IF outcome = NoneVal
                THEN /\ regions' = regions_with(regions, new_country)
                     /\ h_accepted' = Append(h_accepted, new_country)
                ELSE UNCHANGED <<regions, h_accepted>>
    /\ UNCHANGED <<header_indexes, h_succeeded>>
    /\ UNCHANGED notHandlerVars

\* on_finish()
OnFinish ==
    /\ h_op # "off"
    /\ h_op' = "on_finish"
    /\ h_arg' = <<>>
    /\ h_result' = on_finish(regions)
    /\ UNCHANGED <<header_indexes, regions, h_succeeded, h_accepted>>
    /\ UNCHANGED notHandlerVars

\* the header rows given to the handler: those of the test suite, one in
\* other letter case with a further column, and two that lack a header
HeaderRows ==
    {expected_headers,
     <<Country_capitalised, population, net_change, land_area, REGIONS_upper, lol>>,
     <<>>,
     <<country, population, net_change, land_area>>}

\* the fields of the rows given to the handler
NameFields == {<<"a">>, <<"b">>}
RegionFields == {<<"r">>, <<"R">>}

\* rows that are accepted under the header row in expected order
CountryRows ==
    {<<name, <<"1">>, <<"-", "1">>, <<"1">>, region>> :
        name \in NameFields, region \in RegionFields}
    \cup {<<<<"a">>, <<"2">>, <<"-", "1">>, <<"1">>, <<"r">>>>}

\* the two rejected rows of the test suite; rows with '\0' and with '' in a
\* column that is not bound; rows with a field of two signs, alone and next to
\* an empty field; a row of three fields; a number for a name
OtherRows ==
    {<<<<"h", "e", "l", "l", "o">>, <<"t", "h", "i", "s">>, <<"i", "s">>, <<>>,
       <<"a">>, <<"r", "o", "w">>>>,
     <<<<"h", "e", "l", "l", "o">>, <<"1", "0", "0">>, <<"i", "s">>, <<"a">>,
       <<"r", "o", "w">>>>,
     <<<<"a">>, <<"1">>, <<"1">>, <<"1">>, <<"r">>, <<Nul>>>>,
     <<<<"a">>, <<"1">>, <<"1">>, <<"1">>, <<"r">>, <<>>>>,
     <<<<"a">>, <<"-", "-", "1">>, <<"1">>, <<"1">>, <<"r">>>>,
     <<<<"a">>, <<"+", "-", "1">>, <<>>, <<"1">>, <<"r">>>>,
     <<<<"a">>, <<"1">>, <<"1">>>>,
     <<<<"7">>, <<"1">>, <<"1">>, <<"1">>, <<"r">>>>}

Rows == CountryRows \cup OtherRows

InitHandler ==
    /\ FreshHandler
    /\ IdleReading
    /\ IdleDraftsBut("none")
    /\ IdleHeaders
    /\ IdleRank
    /\ IdleRegion

NextHandler ==
    \/ \E received \in HeaderRows : OnHeader(received)
    \/ \E data \in Rows : OnRow(data)
    \/ OnFinish

SpecHandler == InitHandler /\ [][NextHandler]_vars

\* ------------------------------------------------------------------------
\* One header row, given to get_header_indexes and to a fresh handler
\* ------------------------------------------------------------------------
Headings ==
    {country, population, net_change, land_area, regions_heading,
     Country_capitalised, lol}

\* header rows without a repeated heading, and the rows of the test suite
ReceivedRows ==
    UNION {{r \in [1..n -> Headings] : \A i, j \in 1..n : r[i] = r[j] => i = j} :
              n \in 0..MaxHeaderLen}
    \cup {TestHeadersWithNoise, TestOnHeaderRandomOrder, TestOnHeaderWithNoise}

InitHeaders ==
    /\ gh_received \in ReceivedRows
    /\ gh_op = "none"
    /\ gh_result = NoneVal
    /\ FreshHandler
    /\ IdleReading
    /\ IdleDraftsBut("none")
    /\ IdleRank
    /\ IdleRegion

GetHeaderIndexes ==
    /\ gh_op = "none"
    /\ gh_op' = "get_header_indexes"
    /\ gh_result' = get_header_indexes(gh_received, expected_headers)
    /\ UNCHANGED gh_received
    /\ UNCHANGED notHeaderVars

NextHeaders ==
    \/ GetHeaderIndexes
    \/ OnHeader(gh_received)

SpecHeaders == InitHeaders /\ [][NextHeaders]_vars

\* ------------------------------------------------------------------------
\* Claims about get_header_indexes and on_header, under SpecHeaders
\* ------------------------------------------------------------------------
\* the row has every expected name, in whatever letter case
ContainsAllExpected(received) ==
    \A j \in 1..Len(expected_headers) :
        \E i \in 1..Len(received) : lower(received[i]) = lower(expected_headers[j])

\* one position per expected header, in the order of the expected headers,
\* each pointing at a received heading that is the expected name up to case
PositionsOfExpected(received, outcome) ==
    /\ outcome[1] = "tuple"
    /\ Len(outcome[2]) = Len(expected_headers)
    /\ \A j \in 1..Len(expected_headers) :
          /\ outcome[2][j] \in 0..(Len(received) - 1)
          /\ lower(received[outcome[2][j] + 1]) = lower(expected_headers[j])

\* C13: for every received header row that contains all expected names, in
\* any column order and with extra columns in between, get_header_indexes
\* returns and on_header binds one position per expected header, in
\* expected-header order, and the received header at that position is the
\* expected name case-insensitively.
C13_PositionsFollowExpected ==
    ContainsAllExpected(gh_received) =>
        /\ gh_op = "get_header_indexes" => PositionsOfExpected(gh_received, gh_result)
        /\ h_op = "on_header" =>
               /\ h_result = NoneVal
               /\ PositionsOfExpected(gh_received, header_indexes)

\* the shuffled row with noise of the test suite, given to both
C13_Witness ==
    /\ gh_received = TestOnHeaderWithNoise
    /\ gh_op = "get_header_indexes"
    /\ gh_result = TupleVal(<<2, 5, 4, 0, 7>>)
    /\ h_op = "on_header"
    /\ header_indexes = TupleVal(<<2, 5, 4, 0, 7>>)

\* ------------------------------------------------------------------------
\* Claims about CSVCountryHandler, under SpecHandler
\* ------------------------------------------------------------------------
\* C14: on_header with a row that lacks an expected header raises
\* ValueError('At least one header missing.') and leaves the header binding
\* exactly as it was; on_row raises AttributeError('No Headers'), whatever
\* the row and without changing the regions, whenever no on_header call has
\* succeeded before, a failed on_header call included.
C14_Step ==
    /\ (h_op' = "on_header" /\ ~ContainsAllExpected(h_arg')) =>
           /\ h_result' = HeaderMissing
           /\ header_indexes' = header_indexes
    /\ (h_op' = "on_row" /\ ~h_succeeded) =>
           /\ h_result' = NoHeaders
           /\ regions' = regions
           /\ header_indexes' = Unset

C14_NoPartialBinding == [][C14_Step]_vars

\* a failed on_header after rows were accepted: the binding is still there
C14_Witness ==
    /\ h_op = "on_header"
    /\ h_result = HeaderMissing
    /\ header_indexes = TupleVal(<<0, 1, 2, 3, 4>>)
    /\ h_accepted # <<>>

\* C15: once headers are bound, a row in which any field, in a bound column
\* or not, is empty or null raises ValueError('Row contains missing data');
\* the check comes before typing and type validation, and the regions are
\* unchanged.
C15_Step ==
    (/\ h_op' = "on_row"
     /\ header_indexes # Unset
     /\ \E i \in 1..Len(h_arg') : h_arg'[i] = <<>> \/ h_arg'[i] = <<Nul>>) =>
        /\ h_result' = MissingData
        /\ regions' = regions
        /\ h_accepted' = h_accepted

C15_MissingDataFirst == [][C15_Step]_vars

\* the row with an empty field next to a field int() cannot parse, given
\* after a country was accepted
C15_Witness ==
    /\ h_op = "on_row"
    /\ h_arg = <<<<"a">>, <<"+", "-", "1">>, <<>>, <<"1">>, <<"r">>>>
    /\ h_result = MissingData
    /\ regions # <<>>

\* an integer literal: an optional sign, then decimal digits only
IsIntegerLiteral(item) ==
    \/ isdigit(item)
    \/ item # <<>> /\ item[1] \in {"+", "-"} /\ isdigit(Tail(item))

TypeOf(item) == IF IsIntegerLiteral(item) THEN "int" ELSE "str"

\* C16: once headers are bound, a row with no empty field whose typed values
\* in the five bound columns are not exactly (string, integer, integer,
\* integer, string) raises ValueError('Type Mismatch'); no region is created
\* and no country is appended.
C16_Step ==
    (/\ h_op' = "on_row"
     /\ header_indexes # Unset
     /\ \A i \in 1..Len(h_arg') : h_arg'[i] # <<>> /\ h_arg'[i] # <<Nul>>
     /\ \A j \in 1..Len(header_indexes[2]) : header_indexes[2][j] < Len(h_arg')
     /\ [j \in 1..Len(header_indexes[2]) |->
            TypeOf(h_arg'[header_indexes[2][j] + 1])]
          # <<"str", "int", "int", "int", "str">>) =>
        /\ h_result' = TypeMismatch
        /\ regions' = regions
        /\ h_accepted' = h_accepted

C16_TypeMismatchRejected == [][C16_Step]_vars

\* the accepted countries whose region value is key
AcceptedInto(key) ==
    {i \in 1..Len(h_accepted) : h_accepted[i].REGION = key}

\* C18: in the mappings on_finish returns, the breakdown of every region has
\* exactly one entry per row accepted into that region, every entry is
\* [population, net change, percent of the region's population, density,
\* rank], and the rank positions are exactly 1..n, without repeats or gaps.
C18_OneEntryPerRow ==
    (h_op = "on_finish" /\ h_result[1] = "return") =>
        \A r \in 1..Len(h_result[2][2]) :
            LET key == h_result[2][2][r][1]
                entries == h_result[2][2][r][2]
            IN /\ Len(entries) = Cardinality(AcceptedInto(key))
               /\ \A e \in 1..Len(entries) : Len(entries[e][2]) = 5
               /\ {entries[e][2][5] : e \in 1..Len(entries)}
                      = 1..Cardinality(AcceptedInto(key))

\* C20: the pipeline groups by a case-normalized key: two accepted rows whose
\* region values differ only in letter case are in the same group, and the
\* keys of both mappings on_finish returns are lower-cased, the region keys
\* and the country keys of the breakdown.
C20_KeysAreLowerCased ==
    /\ \A i, j \in 1..Len(h_accepted) :
          lower(h_accepted[i].REGION) = lower(h_accepted[j].REGION) =>
              \E r \in 1..Len(regions) :
                  /\ h_accepted[i] \in Range(regions[r].COUNTRIES)
                  /\ h_accepted[j] \in Range(regions[r].COUNTRIES)
    /\ (h_op = "on_finish" /\ h_result[1] = "return") =>
          /\ \A r \in 1..Len(h_result[2][1]) :
                h_result[2][1][r][1] = lower(h_result[2][1][r][1])
          /\ \A r \in 1..Len(h_result[2][2]) :
                /\ h_result[2][2][r][1] = lower(h_result[2][2][r][1])
                /\ \A e \in 1..Len(h_result[2][2][r][2]) :
                      h_result[2][2][r][2][e][1] = lower(h_result[2][2][r][2][e][1])

\* ------------------------------------------------------------------------
\* sorted(countries, key=Country.rank) on lists of countries
\* ------------------------------------------------------------------------
\* Country(data, (0, 1, 2, 3, 4)) as the test suite builds it
TestCountry(name, pop, area) ==
    [NAME |-> <<name>>, POPULATION |-> pop, NET_CHANGE |-> 0, LAND_AREA |-> area,
     REGION |-> <<"a">>]

TestSortByPopulation ==
    <<TestCountry("c", 3, 1), TestCountry("b", 2, 1), TestCountry("a", 1, 1)>>
TestSortByDensity ==
    <<TestCountry("c", 3, 2), TestCountry("b", 3, 3), TestCountry("a", 3, 1)>>
TestSortByName ==
    <<TestCountry("c", 1, 1), TestCountry("b", 1, 1), TestCountry("a", 1, 1)>>

\* countries with positive land area
RankedCountries ==
    {TestCountry(name, pop, area) :
        name \in {"a", "b", "B"}, pop \in {1, 2}, area \in {1, 2}}

CountryLists ==
    UNION {[1..n -> RankedCountries] : n \in 0..MaxSortLen}
    \cup {TestSortByPopulation, TestSortByDensity, TestSortByName}

InitRank ==
    /\ rk_countries \in CountryLists
    /\ rk_op = "none"
    /\ rk_sorted = <<>>
    /\ IdleReading
    /\ IdleDraftsBut("none")
    /\ IdleHeaders
    /\ IdleHandler
    /\ IdleRegion

SortByRank ==
    /\ rk_op = "none"
    /\ rk_op' = "sorted"
    /\ rk_sorted' = sorted_by_rank(rk_countries)
    /\ UNCHANGED rk_countries
    /\ UNCHANGED notRankVars

NextRank == SortByRank

SpecRank == InitRank /\ [][NextRank]_vars

\* ------------------------------------------------------------------------
\* Region with running totals, Project 2/new parse.py (the same __init__ and
\* append are in future/new parse.py and future/visitor-based region stats.py)
\* ------------------------------------------------------------------------
\* Country: the properties land_area and population return the fields
Members ==
    {[name |-> name, land_area |-> area, population |-> pop] :
        name \in {<<"a">>, <<"b">>}, area \in {1, 3}, pop \in {0, 2}}

\* Region.__init__
InitRegion ==
    /\ rg_countries = <<>>
    /\ rg_population = 0
    /\ rg_land_area = 0
    /\ rg_op = "none"
    /\ IdleReading
    /\ IdleDraftsBut("none")
    /\ IdleHeaders
    /\ IdleHandler
    /\ IdleRank

\* mutant of append: a country already in the region is not counted again
RegionAppendCountsOnce(member) ==
    /\ rg_op # "off"
    /\ Len(rg_countries) < MaxMembers
    /\ rg_op' = "append"
    /\ rg_land_area' = IF member \in Range(rg_countries)
                          THEN rg_land_area
                          ELSE rg_land_area + member.land_area
    /\ rg_population' = IF member \in Range(rg_countries)
                           THEN rg_population
                           ELSE rg_population + member.population
    /\ rg_countries' = Append(rg_countries, member)
    /\ UNCHANGED notRegionVars

\* Region.append
RegionAppend(member) ==
    /\ rg_op # "off"
    /\ Len(rg_countries) < MaxMembers
    /\ rg_op' = "append"
    /\ rg_land_area' = rg_land_area + member.land_area
    /\ rg_population' = rg_population + member.population
    /\ rg_countries' = Append(rg_countries, member)
    /\ UNCHANGED notRegionVars

NextRegion == \E member \in Members : RegionAppend(member)

SpecRegion == InitRegion /\ [][NextRegion]_vars

\* ------------------------------------------------------------------------
\* Claims about Country.rank, under SpecRank
\* ------------------------------------------------------------------------
\* density of x >= density of y, for positive land areas
DensityAtLeast(x, y) == x.POPULATION * y.LAND_AREA >= y.POPULATION * x.LAND_AREA

\* C17: sorting countries with positive land area by key Country.rank orders
\* them by population descending, among equal populations by density
\* descending, among equal population and density by name ascending; a
\* country with a larger population precedes one with a smaller, whatever
\* their densities and names. The sorted list has the countries of the list.
C17_RankOrder ==
    rk_op = "sorted" =>
        /\ \A c \in Range(rk_countries) \cup Range(rk_sorted) :
              Count(rk_sorted, c) = Count(rk_countries, c)
        /\ \A i, j \in 1..Len(rk_sorted) :
              /\ rk_sorted[i].POPULATION > rk_sorted[j].POPULATION => i < j
              /\ (/\ i < j
                  /\ rk_sorted[i].POPULATION = rk_sorted[j].POPULATION) =>
                     DensityAtLeast(rk_sorted[i], rk_sorted[j])
              /\ (/\ i < j
                  /\ rk_sorted[i].POPULATION = rk_sorted[j].POPULATION
                  /\ DensityAtLeast(rk_sorted[j], rk_sorted[i])) =>
                     ~StrLess(rk_sorted[j].NAME, rk_sorted[i].NAME)

\* the density test of the test suite: a, c, b
C17_Witness ==
    /\ rk_countries = TestSortByDensity
    /\ rk_op = "sorted"
    /\ rk_sorted
         = <<TestCountry("a", 3, 1), TestCountry("c", 3, 2), TestCountry("b", 3, 3)>>

\* ------------------------------------------------------------------------
\* Claims about Region with running totals, under SpecRegion
\* ------------------------------------------------------------------------
\* C19: after any sequence of append calls the population total is the sum
\* of the populations of the members and the land-area total the sum of
\* their land areas, a country appended more than once counting once per
\* append.
C19_TotalsAreSums ==
    rg_op # "off" =>
        /\ rg_population
             = Sum([i \in 1..Len(rg_countries) |-> rg_countries[i].population])
        /\ rg_land_area
             = Sum([i \in 1..Len(rg_countries) |-> rg_countries[i].land_area])

\* the same country appended twice, then another
C19_Witness ==
    /\ rg_op = "append"
    /\ Len(rg_countries) = 3
    /\ rg_countries[1] = rg_countries[2]
    /\ rg_countries[3] # rg_countries[1]
    /\ rg_countries[1].population = 2
    /\ rg_population = 4 + rg_countries[3].population

\* ------------------------------------------------------------------------
\* PopulationStandardError and PopulationAreaSimilarity,
\* Project 2/future/new parse 2.py
\* ------------------------------------------------------------------------
\* the countries given to visit: population and land_area are read
VisitedCountries ==
    {[population |-> pop, land_area |-> area] : pop \in {0, 1, 2, 3}, area \in {0, 2}}

\* PopulationStandardError.visit
pse_visit(acc, c) ==
    [length      |-> acc.length + 1,
     total_pop   |-> acc.total_pop + c.population,
     populations |-> Append(acc.populations, c.population)]

\* the square root of a quotient, kept exact
SqrtVal(q) == <<"sqrt", q>>

\* mutant of calculate: without the guard on the length, as in
\* visitor-based region stats.py
pse_calculate_unguarded(acc) ==
    IF acc.length = 0 \/ acc.length - 1 = 0 THEN ZeroDivisionError
    ELSE SqrtVal(Quotient(
             Sum([i \in 1..Len(acc.populations) |->
                     (acc.length * acc.populations[i] - acc.total_pop)
                         * (acc.length * acc.populations[i] - acc.total_pop)]),
             acc.length * acc.length * (acc.length - 1) * acc.length))

\* PopulationStandardError.calculate: 0 below two countries, else
\* ((sum((p - mean) ** 2) / (length - 1)) / length) ** 0.5 with
\* mean = total_pop / length; a division by 0 raises
pse_calculate(acc) ==
    IF acc.length < 2 THEN IntVal(0)
    ELSE IF acc.length = 0 \/ acc.length - 1 = 0 THEN ZeroDivisionError
    ELSE SqrtVal(Quotient(
             Sum([i \in 1..Len(acc.populations) |->
                     (acc.length * acc.populations[i] - acc.total_pop)
                         * (acc.length * acc.populations[i] - acc.total_pop)]),
             acc.length * acc.length * (acc.length - 1) * acc.length))

InitStandardError ==
    /\ pse = FreshStandardError
    /\ pse_op = "none"
    /\ pse_result = NoneVal
    /\ IdleReading
    /\ IdlePipeline
    /\ IdleDraftsBut("standard error")

PseVisit(c) ==
    /\ pse_op # "off"
    /\ pse.length < MaxVisits
    /\ pse' = pse_visit(pse, c)
    /\ pse_op' = "visit"
    /\ pse_result' = NoneVal
    /\ UNCHANGED notStandardErrorVars

PseCalculate ==
    /\ pse_op # "off"
    /\ pse_op' = "calculate"
    /\ pse_result' = pse_calculate(pse)
    /\ UNCHANGED pse
    /\ UNCHANGED notStandardErrorVars

NextStandardError ==
    \/ \E c \in VisitedCountries : PseVisit(c)
    \/ PseCalculate

SpecStandardError == InitStandardError /\ [][NextStandardError]_vars

\* PopulationAreaSimilarity.visit
pas_visit(acc, c) ==
    [land_squared             |-> acc.land_squared + c.land_area * c.land_area,
     population_squared       |-> acc.population_squared + c.population * c.population,
     land_population_product  |-> acc.land_population_product
                                      + c.land_area * c.population]

\* PopulationAreaSimilarity.calculate:
\* land_population_product / (population_squared * land_squared) ** 0.5,
\* the division raising when the divisor is 0
pas_calculate(acc) ==
    IF acc.population_squared * acc.land_squared = 0 THEN ZeroDivisionError
    ELSE [dot |-> acc.land_population_product,
          divisor_squared |-> acc.population_squared * acc.land_squared]

InitSimilarity ==
    /\ pas = FreshSimilarity
    /\ pas_visited = <<>>
    /\ pas_op = "none"
    /\ pas_result = NoneVal
    /\ IdleReading
    /\ IdlePipeline
    /\ IdleDraftsBut("similarity")

PasVisit(c) ==
    /\ pas_op # "off"
    /\ Len(pas_visited) < MaxVisits
    /\ pas' = pas_visit(pas, c)
    /\ pas_visited' = Append(pas_visited, c)
    /\ pas_op' = "visit"
    /\ pas_result' = NoneVal
    /\ UNCHANGED notSimilarityVars

PasCalculate ==
    /\ pas_op # "off"
    /\ pas_op' = "calculate"
    /\ pas_result' = pas_calculate(pas)
    /\ UNCHANGED <<pas, pas_visited>>
    /\ UNCHANGED notSimilarityVars

NextSimilarity ==
    \/ \E c \in VisitedCountries : PasVisit(c)
    \/ PasCalculate

SpecSimilarity == InitSimilarity /\ [][NextSimilarity]_vars

\* ------------------------------------------------------------------------
\* Claims about the statistics of new parse 2.py
\* ------------------------------------------------------------------------
\* C21: PopulationStandardError.calculate returns the sentinel 0 whenever
\* fewer than two countries have been visited, and in no state reached by
\* visit calls does it divide by zero.
C21_SentinelBelowTwo ==
    pse_op = "calculate" =>
        /\ Len(pse.populations) < 2 => pse_result = IntVal(0)
        /\ pse_result # ZeroDivisionError

\* calculate after one visit
C21_Witness ==
    /\ pse_op = "calculate"
    /\ Len(pse.populations) = 1
    /\ pse_result = IntVal(0)

\* C22: PopulationAreaSimilarity.calculate yields a defined failure or
\* sentinel value, not a division by zero, when every visited country has
\* land area 0 or every visited country has population 0, none visited
\* included.
C22_NoDivisionByZero ==
    (/\ pas_op = "calculate"
     /\ \/ \A i \in 1..Len(pas_visited) : pas_visited[i].land_area = 0
        \/ \A i \in 1..Len(pas_visited) : pas_visited[i].population = 0) =>
        pas_result # ZeroDivisionError

\* ------------------------------------------------------------------------
\* set_type / CSVCountryHandler._type_data on one string
\* ------------------------------------------------------------------------
\* strings of signs, digits and a letter
TypedItems == UNION {[1..n -> {"+", "-", "1", "5", "a"}] : n \in 0..MaxItemLen}

InitTyper ==
    /\ ty_item \in TypedItems
    /\ ty_op = "none"
    /\ ty_result = NoneVal
    /\ IdleReading
    /\ IdlePipeline
    /\ IdleDraftsBut("typer")

\* set_type(item), the same expression as _type_data(item)
SetType ==
    /\ ty_op = "none"
    /\ ty_op' = "set_type"
    /\ ty_result' = type_data(ty_item)
    /\ UNCHANGED ty_item
    /\ UNCHANGED notTyperVars

NextTyper == SetType

SpecTyper == InitTyper /\ [][NextTyper]_vars

\* ------------------------------------------------------------------------
\* Claims about the field typer, under SpecTyper
\* ------------------------------------------------------------------------
\* the integer an integer literal denotes
LiteralValue(item) ==
    IF item[1] = "-" THEN 0 - DigitsValue(Tail(item))
    ELSE IF item[1] = "+" THEN DigitsValue(Tail(item))
    ELSE DigitsValue(item)

\* C23: the field typer is total: for an optional single leading '+' or '-'
\* followed only by digits it returns that integer, and for every other
\* string ('+-5', '--1', a lone sign, the empty string) it returns the string
\* unchanged and never raises.
C23_TyperIsTotal ==
    ty_op = "set_type" =>
        IF IsIntegerLiteral(ty_item)
           THEN ty_result = IntVal(LiteralValue(ty_item))
           ELSE ty_result = StrVal(ty_item)

\* ------------------------------------------------------------------------
\* Round trip of CSVReader (Project 2/CSVParser.py), under SpecReader
\* ------------------------------------------------------------------------
\* sep.join(parts), for a sequence of strings
RECURSIVE JoinWith(_, _)
JoinWith(parts, sep) ==
    IF parts = <<>> THEN <<>>
    ELSE IF Len(parts) = 1 THEN parts[1]
    ELSE parts[1] \o <<sep>> \o JoinWith(Tail(parts), sep)

\* the text written back from parsed rows: fields joined with the delimiter,
\* rows joined with the line-break
Rejoined(rows) ==
    JoinWith([i \in DOMAIN rows |-> JoinWith(rows[i], Delimiter)], Linebreak)

\* C24: for every input text without escape character, joining the fields
\* of each parsed record with the delimiter and the records with the
\* line-break reproduces the original text.
C24_RoundTrip ==
    (IterationDone /\ Escape \notin Range(file)) => Rejoined(AllRows) = file

\* ------------------------------------------------------------------------
\* csv_read, ProjectOneCSVParser.py: a generator over a BufferedReader
\* ------------------------------------------------------------------------
\* file = BufferedReader(file, 1000)
CsvReadBufferSize == 1000

CsvTexts == UNION {[1..n -> Alphabet] : n \in 0..MaxCsvLen} \cup {TestNoTrailingNewline}

InitCsvRead ==
    /\ cr_src \in CsvTexts
    /\ cr_file = BufferedReaderInit(cr_src, CsvReadBufferSize)
    /\ cr_string = <<>>
    /\ cr_row = <<>>
    /\ cr_escaped = FALSE
    /\ cr_pc = "loop"
    /\ cr_yielded = <<>>
    /\ cr_returned = NoneVal
    /\ IdleReading
    /\ IdlePipeline
    /\ IdleDraftsBut("csv read")

\* `for character in file`: the reader after __next__, and what it returned
cr_next == next_state(cr_src, cr_file, CsvReadBufferSize)
cr_character == next_result(cr_src, cr_file, CsvReadBufferSize)

\* the loop body on a plain character, or on the first quote of a pair:
\* string += character
CsvReadAppend(reader, appended) ==
    /\ cr_file' = reader
    /\ cr_string' = Append(cr_string, appended)
    /\ UNCHANGED <<cr_src, cr_row, cr_escaped, cr_pc, cr_yielded, cr_returned>>

\* the character is the escape and so is file.peek(): traverse(1) skips the
\* second quote, and the first is appended
CsvReadQuotePair ==
    /\ cr_pc = "loop"
    /\ cr_character = CharVal(Escape)
    /\ peek_result(cr_src, cr_next, CsvReadBufferSize) = CharVal(Escape)
    /\ CsvReadAppend(traverse(cr_src, peek_state(cr_src, cr_next, CsvReadBufferSize),
                              CsvReadBufferSize, 1),
                     Escape)
    /\ UNCHANGED notCsvReadVars

\* the character is the escape and file.peek() is not: escaped flips
CsvReadQuote ==
    /\ cr_pc = "loop"
    /\ cr_character = CharVal(Escape)
    /\ peek_result(cr_src, cr_next, CsvReadBufferSize) # CharVal(Escape)
    /\ cr_file' = peek_state(cr_src, cr_next, CsvReadBufferSize)
    /\ cr_escaped' = ~cr_escaped
    /\ UNCHANGED <<cr_src, cr_string, cr_row, cr_pc, cr_yielded, cr_returned>>
    /\ UNCHANGED notCsvReadVars

\* split outside a quoted span: the item is closed
CsvReadSplit ==
    /\ cr_pc = "loop"
    /\ cr_character = CharVal(Delimiter)
    /\ ~cr_escaped
    /\ cr_file' = cr_next
    /\ cr_row' = Append(cr_row, cr_string)
    /\ cr_string' = <<>>
    /\ UNCHANGED <<cr_src, cr_escaped, cr_pc, cr_yielded, cr_returned>>
    /\ UNCHANGED notCsvReadVars

\* line-break outside a quoted span: the item is closed and the row yielded
CsvReadLinebreak ==
    /\ cr_pc = "loop"
    /\ cr_character = CharVal(Linebreak)
    /\ ~cr_escaped
    /\ cr_file' = cr_next
    /\ cr_yielded' = Append(cr_yielded, Append(cr_row, cr_string))
    /\ cr_row' = <<>>
    /\ cr_string' = <<>>
    /\ UNCHANGED <<cr_src, cr_escaped, cr_pc, cr_returned>>
    /\ UNCHANGED notCsvReadVars

\* any other character, and split or line-break inside a quoted span
CsvReadPlain ==
    /\ cr_pc = "loop"
    /\ cr_character[1] = "char"
    /\ cr_character # CharVal(Escape)
    /\ cr_character \in {CharVal(Delimiter), CharVal(Linebreak)} => cr_escaped
    /\ CsvReadAppend(cr_next, cr_character[2][1])
    /\ UNCHANGED notCsvReadVars

\* the reader is exhausted: `if string: row.append(string); return row`.
\* The return of a generator ends the iteration; its value rides on the
\* StopIteration and is not handed to the consumer of the rows.
CsvReadEnd ==
    /\ cr_pc = "loop"
    /\ cr_character = StopIteration
    /\ cr_pc' = "done"
    /\ cr_file' = cr_next
    /\ IF cr_string # <<>>
          THEN /\ cr_row' = Append(cr_row, cr_string)
               /\ cr_returned' = RowVal(Append(cr_row, cr_string))
          ELSE /\ cr_row' = cr_row
               /\ cr_returned' = NoneVal
    /\ UNCHANGED <<cr_src, cr_string, cr_escaped, cr_yielded>>
    /\ UNCHANGED notCsvReadVars

NextCsvRead ==
    \/ CsvReadQuotePair
    \/ CsvReadQuote
    \/ CsvReadSplit
    \/ CsvReadLinebreak
    \/ CsvReadPlain
    \/ CsvReadEnd

SpecCsvRead == InitCsvRead /\ [][NextCsvRead]_vars

\* ------------------------------------------------------------------------
\* Claims about csv_read, under SpecCsvRead
\* ------------------------------------------------------------------------
\* the reader runs dry with a non-empty item pending: the row with that
\* item is the next one the consumer gets
C25_Step ==
    (cr_pc = "loop" /\ cr_character = StopIteration /\ cr_string # <<>>) =>
        cr_yielded' = Append(cr_yielded, Append(cr_row, cr_string))

\* an unquoted file not ending in a line-break gives one row per line
C25_State ==
    (cr_pc = "done" /\ cr_src # <<>> /\ Escape \notin Range(cr_src)
        /\ cr_src[Len(cr_src)] # Linebreak) =>
        cr_yielded = ExpectedRows(cr_src)

\* C25: when the file does not end with a line-break, the final item is
\* appended to the pending row and that row is yielded to the consumer as
\* the last line: iterating csv_read produces one list per line of the file,
\* the unterminated last line included.
C25_LastLineYielded == [](C25_State) /\ [][C25_Step]_vars

\* ------------------------------------------------------------------------
\* handle_country_data, Project 2/future/new parse 2.py
\* ------------------------------------------------------------------------
FloatVal(str) == <<"float", str>>

\* float(item) succeeds, on strings of signs, digits, '.' and letters: an
\* optional sign, then digits with at most one '.', one digit at least
IsFloatLiteral(item) ==
    LET body == IF item # <<>> /\ item[1] \in {"+", "-"} THEN Tail(item) ELSE item
    IN  /\ \A i \in 1..Len(body) : body[i] \in DigitSet \cup {"."}
        /\ Cardinality({i \in 1..Len(body) : body[i] = "."}) <= 1
        /\ \E i \in 1..Len(body) : body[i] \in DigitSet

\* set_type: int(item), else float(item), else str(item)
set_type(item) ==
    IF int(item) # InvalidLiteral THEN int(item)
    ELSE IF IsFloatLiteral(item) THEN FloatVal(item)
    ELSE StrVal(item)

\* lambda v: v > 0, on an int or a float
positive(value) ==
    IF value[1] = "int" THEN value[2] > 0
    ELSE /\ value[2][1] # "-"
         /\ \E i \in 1..Len(value[2]) : value[2][i] \in DigitSet \ {"0"}

\* Header.validate: isinstance(data, self._type) and the validator, if any
validate(header, value) ==
    /\ value[1] \in header.type
    /\ header.validator = "positive" => positive(value)

\* the header data of main: (name, type, validator)
MainHeaderData ==
    <<[name |-> country, type |-> {"str"}, validator |-> "none"],
      [name |-> regions_heading, type |-> {"str"}, validator |-> "none"],
      [name |-> land_area, type |-> {"float", "int"}, validator |-> "positive"],
      [name |-> population, type |-> {"int"}, validator |-> "positive"],
      [name |-> net_change, type |-> {"int"}, validator |-> "none"]>>

\* create_headers: Header(name, received.index(name), type_, validator)
create_headers(expected, received) ==
    [j \in 1..Len(expected) |->
        [name |-> expected[j].name, index |-> tuple_index(received, expected[j].name),
         type |-> expected[j].type, validator |-> expected[j].validator]]

\* extract_row: header by header, set_type(row[header.index]); the first
\* item that does not validate raises ValueError, the first index past the
\* row raises IndexError
RECURSIVE extract_row(_, _)
extract_row(line, hdrs) ==
    IF hdrs = <<>> THEN TupleVal(<<>>)
    ELSE IF hdrs[1].index >= Len(line) THEN IndexError
    ELSE LET item == set_type(line[hdrs[1].index + 1])
             rest == extract_row(line, Tail(hdrs))
         IN  IF ~validate(hdrs[1], item) THEN ValueErrorOf("Bad type")
             ELSE IF rest[1] # "tuple" THEN rest
             ELSE TupleVal(<<item>> \o rest[2])

\* Country(*extracted); name and region read lower-cased
NewCountry(extracted) ==
    [name |-> lower(extracted[1][2]), region |-> lower(extracted[2][2]),
     land_area |-> extracted[3], population |-> extracted[4][2],
     net_change |-> extracted[5][2]]

\* Region.append: set.add, countries being equal when their names are
set_add(members, c) ==
    IF \E i \in 1..Len(members) : members[i].name = c.name
       THEN members
       ELSE Append(members, c)

\* the members of the region under key, () when there is none
MembersOf(dict, key) ==
    IF \E i \in 1..Len(dict) : dict[i][1] = key
       THEN (CHOOSE e \in Range(dict) : e[1] = key)[2]
       ELSE <<>>

\* the header row of the file, in the order of countries.csv
ReceivedByMain == <<country, population, net_change, land_area, regions_heading>>

MainHeaders == create_headers(MainHeaderData, ReceivedByMain)

\* rows of the reader: valid ones, and rows with a wrong type, a failing
\* predicate, an empty field, too few fields
ValidDataRows ==
    {<<name, <<"1">>, <<"-", "1">>, <<"2">>, region>> :
        name \in {<<"a">>, <<"b">>}, region \in {<<"r">>, <<"s">>}}
    \cup {<<<<"A">>, <<"2">>, <<"0">>, <<"1", ".", "5">>, <<"R">>>>}

InvalidDataRows ==
    {<<<<"7">>, <<"1">>, <<"1">>, <<"1">>, <<"r">>>>,
     <<<<"a">>, <<"0">>, <<"1">>, <<"1">>, <<"r">>>>,
     <<<<"a">>, <<"1">>, <<>>, <<"1">>, <<"r">>>>,
     <<<<"a">>, <<"1">>, <<"1">>, <<"-", "1">>, <<"r">>>>,
     <<<<"a">>, <<"1", ".", "5">>, <<"1">>, <<"1">>, <<"r">>>>}

ShortDataRows ==
    {<<<<"a">>, <<"1">>, <<"1">>>>,
     <<>>}

DataRows == ValidDataRows \cup InvalidDataRows \cup ShortDataRows

InitCountryData ==
    /\ hd_data \in UNION {[1..n -> DataRows] : n \in 0..MaxDataRows}
    /\ hd_pos = 0
    /\ hd_regions = <<>>
    /\ hd_pc = "loop"
    /\ hd_result = NoneVal
    /\ IdleReading
    /\ IdlePipeline
    /\ IdleDraftsBut("country data")

\* the body of `for country in data`: extract_row; ValueError skips the
\* row, any other exception leaves the function; else the country is added
\* to its region, which is created when new
HandleRow ==
    /\ hd_pc = "loop"
    /\ hd_pos < Len(hd_data)
    /\ hd_pos' = hd_pos + 1
    /\ LET extracted == extract_row(hd_data[hd_pos + 1], MainHeaders)
       IN  IF extracted[1] = "ValueError"
              THEN UNCHANGED <<hd_regions, hd_pc, hd_result>>
           ELSE IF extracted[1] # "tuple"
              THEN /\ hd_pc' = "raised"
                   /\ hd_result' = extracted
                   /\ UNCHANGED hd_regions
           ELSE LET new_country == NewCountry(extracted[2])
                IN  /\ hd_regions' =
                           dict_set(hd_regions, new_country.region,
                                    set_add(MembersOf(hd_regions, new_country.region),
                                            new_country))
                    /\ UNCHANGED <<hd_pc, hd_result>>
    /\ UNCHANGED hd_data
    /\ UNCHANGED notCountryDataVars

\* return [region for region in regions.values()]
HandleReturn ==
    /\ hd_pc = "loop"
    /\ hd_pos = Len(hd_data)
    /\ hd_pc' = "returned"
    /\ hd_result' = TupleVal([i \in 1..Len(hd_regions) |-> hd_regions[i]])
    /\ UNCHANGED <<hd_data, hd_pos, hd_regions>>
    /\ UNCHANGED notCountryDataVars

NextCountryData == HandleRow \/ HandleReturn

SpecCountryData == InitCountryData /\ [][NextCountryData]_vars

\* ------------------------------------------------------------------------
\* Claims about handle_country_data, under SpecCountryData
\* ------------------------------------------------------------------------
\* a row with every bound column present, of the right type and passing
\* its predicate
RowIsValid(line) ==
    \A j \in 1..Len(MainHeaders) :
        /\ MainHeaders[j].index < Len(line)
        /\ validate(MainHeaders[j], set_type(line[MainHeaders[j].index + 1]))

\* a row with missing or invalid data is skipped: the regions stay as they
\* are and the loop goes on
C26_Step ==
    (hd_pc = "loop" /\ hd_pos < Len(hd_data) /\ ~RowIsValid(hd_data[hd_pos + 1])) =>
        /\ hd_regions' = hd_regions
        /\ hd_pc' = "loop"
        /\ hd_pos' = hd_pos + 1

\* C26: handle_country_data is lenient throughout: every row with missing
\* or invalid data (wrong type, failing predicate, or too short to hold a
\* bound column) is skipped without being assigned to a region, later valid
\* rows are still processed, and no row makes the run abort.
C26_LenientThroughout == [](hd_pc # "raised") /\ [][C26_Step]_vars

\* ------------------------------------------------------------------------
\* CSVReader over BufferedStream as a function of the text and the capacity
\* ------------------------------------------------------------------------
\* CSVReader.__next__ from the stream st with the accumulators given: the
\* stream it leaves, and the row it returns or StopIteration
RECURSIVE reader_next(_, _, _, _, _, _)
reader_next(src, st, size, esc, str, fields) ==
    LET ch == stream_next_result(src, st, size)
        tk == stream_next_state(src, st, size)
    IN  IF ch = StopIteration
           THEN [stream |-> tk,
                 result |-> IF str # <<>> THEN RowVal(Append(fields, str))
                                          ELSE StopIteration]
        ELSE IF ch = CharVal(Escape)
           THEN IF stream_peek_result(src, tk, size) = Escape
                   THEN reader_next(src, stream_skip(stream_peek_state(src, tk, size)),
                                    size, esc, Append(str, Escape), fields)
                   ELSE reader_next(src, stream_peek_state(src, tk, size), size,
                                    ~esc, str, fields)
        ELSE IF ch = CharVal(Delimiter) /\ ~esc
           THEN reader_next(src, tk, size, esc, <<>>, Append(fields, str))
        ELSE IF ch = CharVal(Linebreak) /\ ~esc
           THEN [stream |-> tk, result |-> RowVal(Append(fields, str))]
        ELSE reader_next(src, tk, size, esc, Append(str, ch[2][1]), fields)

\* [line for line in reader]: the rows up to the first StopIteration
RECURSIVE reader_rows(_, _, _)
reader_rows(src, st, size) ==
    LET r == reader_next(src, st, size, FALSE, <<>>, <<>>)
    IN  IF r.result = StopIteration THEN <<>>
        ELSE <<r.result[2]>> \o reader_rows(src, r.stream, size)

\* BufferedStream(file, size) before anything is read
FreshStream == [tell |-> 0, buffer |-> <<>>]

InitCapacity ==
    /\ cp_src \in BoundedTexts
    /\ cp_sizes \in (1..MaxCapacity) \X (1..MaxCapacity)
    /\ cp_records = <<NoneVal, NoneVal>>
    /\ IdleReading
    /\ IdlePipeline
    /\ IdleDraftsBut("capacity")

\* the k-th reader is built and iterated to its end
ReadRecords(k) ==
    /\ cp_records[k] = NoneVal
    /\ cp_records' =
           [cp_records EXCEPT ![k] = TupleVal(reader_rows(cp_src, FreshStream, cp_sizes[k]))]
    /\ UNCHANGED <<cp_src, cp_sizes>>
    /\ UNCHANGED notCapacityVars

NextCapacity == \E k \in {1, 2} : ReadRecords(k)

SpecCapacity == InitCapacity /\ [][NextCapacity]_vars

\* ------------------------------------------------------------------------
\* Claims about the buffer capacity, under SpecCapacity
\* ------------------------------------------------------------------------
\* C27: the records CSVReader gives over a BufferedStream do not depend on
\* the buffer capacity: for every text and every two capacities >= 1 the two
\* readers give the same records in the same order, also when a doubled
\* escape pair or a record boundary straddles a refill.
C27_CapacityIndependent ==
    (cp_records[1] # NoneVal /\ cp_records[2] # NoneVal) =>
        cp_records[1] = cp_records[2]

\* both readers have run, with different capacities, over a text in which
\* a doubled escape pair straddles a refill of the first reader and a
\* record ends on the last character of a buffer
C27_Witness ==
    /\ cp_records[1] # NoneVal
    /\ cp_records[2] # NoneVal
    /\ cp_sizes[1] # cp_sizes[2]
    /\ \E i \in 1..(Len(cp_src) - 1) :
           /\ cp_src[i] = Escape
           /\ cp_src[i + 1] = Escape
           /\ i % cp_sizes[1] = 0
           /\ \A j \in 1..(i - 1) : cp_src[j] # Escape
    /\ \E i \in 1..(Len(cp_src) - 1) :
           /\ UnescapedBreakAt(cp_src, i)
           /\ i % cp_sizes[1] = 0
    /\ Len(cp_records[1][2]) >= 2

\* ------------------------------------------------------------------------
\* End of the iteration of CSVReader over BufferedStream, under SpecStream
\* ------------------------------------------------------------------------
\* after the end was signalled: a later __next__ signals it again and gives
\* no record, and a peek in between returns '\0'; every character handed to
\* the tokenizer is the next one of the source, and is then behind
C28_Step ==
    /\ bs_stops >= 1 => bs_records' = bs_records
    /\ (bs_stops >= 1 /\ bs_pc = "loop") =>
           (bs_pc' = "ready" /\ bs_result' = StopIteration /\ bs_stops' = bs_stops + 1)
    /\ (bs_stops >= 1 /\ bs_pc = "ready" /\ bs_pc' = "ready") =>
           bs_result' = CharVal(Nul)
    /\ (bs_pc = "loop" /\ character # StopIteration) =>
           (character = CharVal(bs_src[Consumed + 1]) /\ Consumed' > Consumed)
    /\ Consumed' >= Consumed

\* once the end was signalled the source is used up
C28_State == bs_stops >= 1 => (Consumed = Len(bs_src) /\ bs_buffer = <<>>)

\* C28: end-of-sequence is absorbing: once __next__ has signalled it, every
\* later __next__ signals it too and emits no record, peek() calls in
\* between keep returning '\0', and no character of the source is delivered
\* to the tokenizer twice.
C28_EndIsAbsorbing == [](C28_State) /\ [][C28_Step]_vars

\* the end was signalled twice, records were read before, and the last
\* thing done is a peek on the exhausted stream
C28_Witness ==
    /\ bs_stops = MaxStops
    /\ bs_pc = "ready"
    /\ bs_result = CharVal(Nul)
    /\ Len(bs_records) >= 2

\* ------------------------------------------------------------------------
\* Grouping by region in CSVCountryHandler, under SpecHandler
\* ------------------------------------------------------------------------
\* the accepted countries whose region value is key, in acceptance order
AcceptedSeq(key) == SelectSeq(h_accepted, LAMBDA c : c.REGION = key)

RegionValues == {h_accepted[i].REGION : i \in 1..Len(h_accepted)}

\* the keys of a mapping kept as a sequence of <<key, value>>
KeysOf(mapping) == {mapping[i][1] : i \in 1..Len(mapping)}

\* the regions hold the accepted countries and nothing else: one region
\* per region value, its members the rows accepted with that value, in
\* acceptance order, none of them empty; on_finish returns two mappings
\* with these region values as keys
C29_State ==
    /\ \A i, j \in 1..Len(regions) : regions[i].NAME = regions[j].NAME => i = j
    /\ {regions[i].NAME : i \in 1..Len(regions)} = RegionValues
    /\ \A i \in 1..Len(regions) :
           /\ regions[i].COUNTRIES = AcceptedSeq(regions[i].NAME)
           /\ regions[i].COUNTRIES # <<>>
    /\ Sum([i \in 1..Len(regions) |-> Len(regions[i].COUNTRIES)]) = Len(h_accepted)
    /\ (h_op = "on_finish" /\ h_result[1] = "return") =>
           /\ KeysOf(h_result[2][1]) = RegionValues
           /\ KeysOf(h_result[2][2]) = RegionValues
           /\ Len(h_result[2][1]) = Cardinality(RegionValues)
           /\ Len(h_result[2][2]) = Cardinality(RegionValues)

\* a rejected row changes no region
C29_Step ==
    (h_op' = "on_row" /\ h_result' # NoneVal) => regions' = regions

FreshDictionary == [countries |-> <<>>, total_pop |-> 0]

\* CountryDictionary.visit
cd_visit(acc, c) ==
    [countries |-> Append(acc.countries, c), total_pop |-> acc.total_pop + c.population]

\* a country of this draft with the attribute names of CSVParser.py, whose
\* Country.rank is the same tuple
Ranked(c) ==
    [NAME |-> c.name, POPULATION |-> c.population, NET_CHANGE |-> c.net_change,
     LAND_AREA |-> c.land_area, REGION |-> c.region]

\* CountryDictionary.calculate: the countries sorted by rank, each name with
\* [population, net change, percent of the total, density, position]; rank
\* and density divide by the land area, the percentage by the total
cd_calculate(acc) ==
    IF \E i \in 1..Len(acc.countries) : acc.countries[i].land_area = 0
       THEN ZeroDivisionError
    ELSE IF acc.countries # <<>> /\ acc.total_pop = 0 THEN ZeroDivisionError
    ELSE <<"dict",
           region_data(sorted_by_rank([i \in 1..Len(acc.countries) |->
                                          Ranked(acc.countries[i])]),
                       Len(acc.countries), acc.total_pop)>>

StatCalculators == {"PopulationStandardError", "PopulationAreaSimilarity", "CountryDictionary"}

\* func(): a calculator of the type given
construct(func) ==
    [type |-> func,
     acc  |-> IF func = "PopulationStandardError" THEN FreshStandardError
              ELSE IF func = "PopulationAreaSimilarity" THEN FreshSimilarity
              ELSE FreshDictionary]

\* func.visit(country)
func_visit(func, c) ==
    [func EXCEPT !.acc = IF func.type = "PopulationStandardError" THEN pse_visit(@, c)
                         ELSE IF func.type = "PopulationAreaSimilarity" THEN pas_visit(@, c)
                         ELSE cd_visit(@, c)]

\* func.calculate(): a tagged outcome
func_calculate(func) ==
    IF func.type = "PopulationStandardError" THEN pse_calculate(func.acc)
    ELSE IF func.type = "PopulationAreaSimilarity"
       THEN IF func.acc.population_squared * func.acc.land_squared = 0
               THEN ZeroDivisionError
               ELSE <<"similarity", pas_calculate(func.acc)>>
    ELSE cd_calculate(func.acc)

\* mutant of the construction in calculate: the calculators of the last
\* call are taken again when the types are the same
funcs_kept(functions, previous) ==
    IF Len(previous) = Len(functions)
          /\ \A k \in 1..Len(functions) : previous[k].type = functions[k]
       THEN previous
       ELSE [k \in 1..Len(functions) |-> construct(functions[k])]

\* funcs = tuple(func() for func in functions); what an earlier call built
\* is not looked at
funcs_built(functions, previous) ==
    [k \in 1..Len(functions) |-> construct(functions[k])]

\* for country in self._countries: func.visit(country)
RECURSIVE visit_all(_, _)
visit_all(func, countries) ==
    IF countries = <<>> THEN func
    ELSE visit_all(func_visit(func, countries[1]), Tail(countries))

\* the value of calculate: the tuple of the outcomes, the outcome itself
\* for one calculator, funcs[0] raising IndexError for none; an exception of
\* a calculator leaves calculate
calculate_result(funcs) ==
    IF Len(funcs) = 0 THEN IndexError
    ELSE IF Len(funcs) = 1 THEN func_calculate(funcs[1])
    ELSE IF \E k \in 1..Len(funcs) : func_calculate(funcs[k])[1] = "ZeroDivisionError"
       THEN ZeroDivisionError
    ELSE TupleVal([k \in 1..Len(funcs) |-> func_calculate(funcs[k])])

\* countries a region is given; one of them has no land
RegionCountries ==
    {[name |-> n, region |-> <<"r">>, land_area |-> 2, population |-> pop,
      net_change |-> 0] :
        n \in {<<"a">>, <<"b">>, <<"c">>}, pop \in {1, 2}}
    \cup {[name |-> <<"c">>, region |-> <<"r">>, land_area |-> 0, population |-> 1,
           net_change |-> 0]}

\* Region(name): no country yet
InitCalculate ==
    /\ rc_countries = <<>>
    /\ rc_op = "none"
    /\ rc_functions = <<>>
    /\ rc_funcs = <<>>
    /\ rc_result = NoneVal
    /\ rc_calls = 0
    /\ IdleReading
    /\ IdlePipeline
    /\ IdleDraftsBut("calculate")

\* Region.append(country): self._countries.add(country)
RcAppend(c) ==
    /\ rc_op # "off"
    /\ Len(rc_countries) < MaxMembers
    /\ rc_countries' = set_add(rc_countries, c)
    /\ rc_op' = "append"
    /\ rc_calls' = 0
    /\ rc_functions' = <<>>
    /\ rc_funcs' = <<>>
    /\ rc_result' = NoneVal
    /\ UNCHANGED notCalculateVars

\* Region.calculate(*functions)
RcCalculate(functions) ==
    /\ rc_op # "off"
    /\ rc_calls < MaxCalls
    /\ rc_op' = "calculate"
    /\ rc_functions' = functions
    /\ rc_calls' = rc_calls + 1
    /\ LET built == funcs_built(functions, rc_funcs)
           funcs == [k \in 1..Len(functions) |-> visit_all(built[k], rc_countries)]
       IN  /\ rc_funcs' = funcs
           /\ rc_result' = calculate_result(funcs)
    /\ UNCHANGED rc_countries
    /\ UNCHANGED notCalculateVars

NextCalculate ==
    \/ \E c \in RegionCountries : RcAppend(c)
    \/ \E functions \in UNION {[1..n -> StatCalculators] : n \in 0..MaxFunctions} :
           RcCalculate(functions)

SpecCalculate == InitCalculate /\ [][NextCalculate]_vars

\* ------------------------------------------------------------------------
\* Claims about Region.calculate, under SpecCalculate
\* ------------------------------------------------------------------------
\* what a calculator has seen is the members of the region, each once
SeenOnce(func) ==
    IF func.type = "PopulationStandardError"
       THEN func.acc.populations = [i \in 1..Len(rc_countries) |-> rc_countries[i].population]
    ELSE IF func.type = "PopulationAreaSimilarity"
       THEN func.acc.population_squared =
                Sum([i \in 1..Len(rc_countries) |->
                        rc_countries[i].population * rc_countries[i].population])
    ELSE func.acc.countries = rc_countries

\* a call of calculate leaves the members as they are, its calculators
\* have seen the members of the region once each, and right after a call
\* with the same types it returns what that call returned
C30_Step ==
    rc_op' = "calculate" =>
        /\ rc_countries' = rc_countries
        /\ \A k \in 1..Len(rc_funcs') : SeenOnce(rc_funcs'[k])
        /\ (rc_op = "calculate" /\ rc_functions' = rc_functions) =>
               rc_result' = rc_result

\* C30: Region.calculate builds fresh accumulators on every call and only
\* reads the region: members, totals and attributes stay as they are, two
\* calls with the same accumulator types and no append in between return
\* equal results, and a result never includes members visited in an
\* earlier call.
C30_CalculateOnlyReads == [][C30_Step]_vars

\* calculate was called twice in a row on a region of two countries, the
\* second time with two calculators, and returned their outcomes
C30_Witness ==
    /\ rc_op = "calculate"
    /\ rc_calls = 2
    /\ Len(rc_countries) = 2
    /\ Len(rc_functions) = 2
    /\ rc_functions[1] = "CountryDictionary"
    /\ rc_functions[2] = "PopulationStandardError"
    /\ rc_result[1] = "tuple"

====
